---- MODULE Spec2Model ----
(***************************************************************************)
(* Model of the AI horizontal pod autoscaler:                              *)
(*   crd/helper/scaling_algoirthm.py   ScalingAlgorithm (decision,cooldown)*)
(*   autoscaler/helper/model_handler.py ModelHandler._validate_prediction  *)
(*   autoscaler/main.py                AIHorizontalPodAutoscaler (loop)    *)
(*   autoscaler/helper/prometheus_client.py PrometheusClient (retries,     *)
(*                                     parsing, window alignment)          *)
(*                                                                         *)
(* Numbers.  Workloads and forecasts are Python floats; the model draws    *)
(* them from small integers, on which the float operations used by the     *)
(* code (/, *, ceil, mean, <, >) are exact.  resource_removal_strategy is  *)
(* a float in the code; the model draws it from the quarters 0/4 .. 4/4    *)
(* (field q of a record) so that (surplus * fraction) is exact too.  Time  *)
(* is in seconds; datetime.now() and time.time() are the one clock `now`.  *)
(***************************************************************************)
EXTENDS Integers, Sequences, FiniteSets, TLC

VARIABLES
    \* ---- ScalingAlgorithm / AIHorizontalPodAutoscaler state
    now,                  \* the wall clock (datetime.now(), time.time())
    last_scaling_time,    \* ScalingAlgorithm.last_scaling_time: name -> time
    \* ---- one call of calculate_scaling_decision (specification SpecDecide)
    call,                 \* the arguments of the call
    decision,             \* <<>> before the call, <<ScalingDecision>> after it
    \* ---- one call of _validate_prediction (specification SpecValidate)
    vcall,                \* the arguments of the call
    verdict,              \* <<>> before the call, <<BOOLEAN>> after it
    \* ---- one cycle of a target in two runs of the loop (specification SpecTwoRuns)
    runs,                 \* the target's own state and inputs, the other targets' time
    outcomes,             \* <<>> before the cycle, <<outcome 1, outcome 2>> after it
    \* ---- one call of _process_deployment with its collaborators (SpecCycle)
    reads,                \* what the collaborators return, the target's state
    cycled,               \* <<>> before the call, <<result>> after it
    \* ---- one call of _execute_range_query (SpecQuery)
    query,                \* attempt, sleeps, health fields and return value
    \* ---- one call of get_historical_workload (SpecFetch)
    fetch,                \* the backend's answer, the window, the clock
    fetched,              \* <<>> before the call, <<return value>> after it
    \* ---- main(): initialize, run and shutdown, with the signal (SpecMain)
    main,                 \* where main() is, the flags of the operator, the
                          \* signal, and what shutdown() did
    \* ---- one call of _load_crd_configurations (SpecLoad)
    load,                 \* the registry before the call, the items the
                          \* policy source returned, whether the call is done
    \* ---- the window of one call of _make_prediction (SpecWindow)
    window,               \* the window given, and <<>> or <<the window handed
                          \* to the predictor>>
    \* ---- the deployment of one target over its cycles (SpecConverge)
    deployment,           \* its replicas, the forecast and the policy of its
                          \* cycles, and what the last cycle decided
    \* ---- AIHorizontalPodAutoscaler.run (specification Spec)
    monitored_deployments,\* the registry, a dict in insertion order
    last_crd_reload,      \* time of the last reload
    pc,                   \* where run() is: "loop_top", "targets", "reload", "sleep"
    deployment_names,     \* the iteration's snapshot of the registry's keys
    idx,                  \* position of the for loop in deployment_names
    loop_start_time,      \* time.time() at the top of the iteration
    \* ---- history variables, read by the properties only
    processed,            \* targets _process_deployment was called for, this iteration
    issued,               \* name -> time of the last successful patch
    fail_run,             \* name -> consecutive cycles that failed at the metrics fetch
    start,                \* the clock when the observation of run() starts
    reloaded,             \* what the reload step of this iteration did, the
                          \* targets the policy source listed, and the keys of
                          \* the registry before it
    cycle                 \* the call of _process_deployment just made, its result,
                          \* and the time of the target's last patch before it

probevars ==
    <<reads, cycled, query, fetch, fetched, main, load, window, deployment>>
callvars == <<call, decision, vcall, verdict, runs, outcomes, probevars>>
loopvars == <<monitored_deployments, last_crd_reload, pc, deployment_names, idx,
              loop_start_time, processed, issued, fail_run, start, reloaded, cycle>>
vars == <<now, last_scaling_time, callvars, loopvars>>

(***************************************************************************)
(* Bounds of the model and constants of the program                        *)
(***************************************************************************)
MaxForecast == 5          \* forecasts are drawn from -1 .. MaxForecast
MaxCurrent == 5           \* current replica counts from 0 .. MaxCurrent
MaxPolicyReplicas == 3    \* min_replicas, max_replicas from 1 .. this
MaxWorkloadPerPod == 2    \* workload_per_pod from 0 .. this
MaxLoad == 2              \* history values from 0 .. MaxLoad
MaxHistory == 3           \* history windows of length 0 .. MaxHistory
MaxMultiplier == 3        \* validation multipliers from 1 .. MaxMultiplier
RrsDen == 4               \* removal fractions are q / RrsDen, q in 0 .. RrsDen
MaxLoops == 2             \* cycles of the loop that are followed
CycleSeconds == 60        \* main.py:530, the loop's cadence
ReloadSeconds == 600      \* main.py:521, the reload period
EvictionThreshold == 10   \* main.py:512, error_count above this evicts
ModelWindow == 10         \* main.py:301, the length of the predictor's input
MaxRetries == 5           \* prometheus_client.py:22, attempts of a range query
Tolerance == 30           \* prometheus_client.py:186, seconds around a slot
MaxWindow == 2            \* window_minutes from 0 .. MaxWindow
MaxIterations == 3        \* iterations of run() that main() is followed for
MaxWindowLen == 12        \* values in the window given to _make_prediction
MaxCycles == 8            \* cycles a deployment is followed for
MaxElapsed == 1           \* seconds between the two clock reads of a call
DefaultMinReplicas == 1       \* main.py:229
DefaultMaxReplicas == 10      \* main.py:230
DefaultWorkloadPerPod == 100  \* main.py:231
DefaultCooldownPeriod == 300  \* main.py:233
DefaultWindowMinutes == 10    \* main.py:222

Targets == {"a", "b"}

\* Times the clock takes in the models of single calls.
CallTimes == {0, CycleSeconds, 2 * CycleSeconds, 3 * CycleSeconds}
CooldownPeriods == {0, CycleSeconds, 2 * CycleSeconds}

Max(a, b) == IF a >= b THEN a ELSE b
Min(a, b) == IF a <= b THEN a ELSE b

\* math.ceil(a / b) for integers a and b > 0
CeilDiv(a, b) == -((-a) \div b)

RECURSIVE SumSeq(_)
SumSeq(s) == IF s = <<>> THEN 0 ELSE Head(s) + SumSeq(Tail(s))

(***************************************************************************)
(* ScalingConfig and ScalingDecision (scaling_algoirthm.py 7-22)           *)
(***************************************************************************)
\* A numeric resource_removal_strategy q / RrsDen.
Fraction(q) == [numeric |-> TRUE, q |-> q]

\* The resource_removal_strategy main.py:232 stores when the policy has
\* none: the string 'gradual', which is no number.
Gradual == [numeric |-> FALSE, q |-> 0]

\* float('nan') as a forecast.  Forecasts are integers in the model; NaN is
\* an integer below every forecast that is drawn, and no operator does
\* arithmetic on it.
NaN == -1000

ScalingConfig(mn, mx, wpp, rrs, cd) ==
    [min_replicas |-> mn, max_replicas |-> mx, workload_per_pod |-> wpp,
     resource_removal_strategy |-> rrs, cooldown_period |-> cd]

\* pods_surplus is Optional[int]: <<>> is None, <<n>> is n.
ScalingDecision(action, target, current, workload, surplus) ==
    [action |-> action, target_replicas |-> target, current_replicas |-> current,
     predicted_workload |-> workload, pods_surplus |-> surplus]

(***************************************************************************)
(* ScalingAlgorithm                                                        *)
(***************************************************************************)
\* A slip in _calculate_required_pods: floor of the quotient instead of ceil.
RequiredPodsFloor(predicted_workload, workload_per_pod) ==
    IF workload_per_pod <= 0
    THEN 1
    ELSE Max(1, predicted_workload \div workload_per_pod)

\* _calculate_required_pods
CalculateRequiredPods(predicted_workload, workload_per_pod) ==
    IF workload_per_pod <= 0
    THEN 1
    ELSE Max(1, CeilDiv(predicted_workload, workload_per_pod))

\* A slip in _is_in_cooldown: the comparison is the wrong way round.
CooldownInverted(lst, deployment_name, cooldown_period, t) ==
    IF deployment_name \notin DOMAIN lst
    THEN FALSE
    ELSE t > lst[deployment_name] + cooldown_period

\* _is_in_cooldown, with the dictionary and the clock as arguments
IsInCooldown(lst, deployment_name, cooldown_period, t) ==
    IF deployment_name \notin DOMAIN lst
    THEN FALSE
    ELSE t < lst[deployment_name] + cooldown_period

\* Whether _calculate_required_pods raises: math.ceil of a NaN quotient
\* raises ValueError; with workload_per_pod <= 0 the forecast is not used.
RequiredPodsRaises(predicted_workload, workload_per_pod) ==
    workload_per_pod > 0 /\ predicted_workload = NaN

\* A slip in calculate_scaling_decision: the try has no except branch, the
\* exception reaches the caller (action "raised" stands for that).
ErrorEscapes(predicted_workload, current_replicas) ==
    ScalingDecision("raised", current_replicas, current_replicas,
                    predicted_workload, <<>>)

\* The except branch of calculate_scaling_decision.
ErrorDecision(predicted_workload, current_replicas) ==
    ScalingDecision("no_action", current_replicas, current_replicas,
                    predicted_workload, <<>>)

\* A slip in the scale-out branch: the target is not clamped to max_replicas.
ScaleOutUnclamped(pods_required, predicted_workload, current_replicas, config) ==
    ScalingDecision("scale_out", pods_required,
                    current_replicas, predicted_workload, <<>>)

\* The scale-out branch.
ScaleOutDecision(pods_required, predicted_workload, current_replicas, config) ==
    ScalingDecision("scale_out", Min(pods_required, config.max_replicas),
                    current_replicas, predicted_workload, <<>>)

\* A slip in the scale-in branch: the surplus is counted from min_replicas,
\* not from the required count.
ScaleInFromMinimum(pods_required, predicted_workload, current_replicas, config) ==
    LET rrs == config.resource_removal_strategy
        pods_adjusted == config.min_replicas
        pods_surplus == CeilDiv((current_replicas - pods_adjusted) * rrs.q, RrsDen)
        target_replicas == Max(current_replicas - pods_surplus, config.min_replicas)
    IN  IF ~rrs.numeric
        THEN ErrorDecision(predicted_workload, current_replicas)
        ELSE ScalingDecision("scale_in", target_replicas, current_replicas,
                             predicted_workload, <<pods_surplus>>)

\* A slip in the scale-in branch: the surplus is rounded down, not up.
ScaleInFloor(pods_required, predicted_workload, current_replicas, config) ==
    LET rrs == config.resource_removal_strategy
        pods_adjusted == Max(pods_required, config.min_replicas)
        pods_surplus == ((current_replicas - pods_adjusted) * rrs.q) \div RrsDen
        target_replicas == Max(current_replicas - pods_surplus, config.min_replicas)
    IN  IF ~rrs.numeric
        THEN ErrorDecision(predicted_workload, current_replicas)
        ELSE ScalingDecision("scale_in", target_replicas, current_replicas,
                             predicted_workload, <<pods_surplus>>)

\* The scale-in branch with the resource removal strategy.  A strategy that
\* is no number (the string default of main.py:232) makes math.ceil raise,
\* which the except branch turns into no_action.
ScaleInDecision(pods_required, predicted_workload, current_replicas, config) ==
    LET rrs == config.resource_removal_strategy
        pods_adjusted == Max(pods_required, config.min_replicas)
        pods_surplus == CeilDiv((current_replicas - pods_adjusted) * rrs.q, RrsDen)
        target_replicas == Max(current_replicas - pods_surplus, config.min_replicas)
    IN  IF ~rrs.numeric
        THEN ErrorDecision(predicted_workload, current_replicas)
        ELSE ScalingDecision("scale_in", target_replicas, current_replicas,
                             predicted_workload, <<pods_surplus>>)

\* A slip in calculate_scaling_decision: >= where the code has >, so that an
\* already sufficient replica count is "scaled out" to itself.
DecisionScaleOutOnEqual(lst, t, deployment_name, predicted_workload, current_replicas, config) ==
    IF IsInCooldown(lst, deployment_name, config.cooldown_period, t)
    THEN ScalingDecision("no_action", current_replicas, current_replicas,
                         predicted_workload, <<>>)
    ELSE LET pods_required ==
                 Max(CalculateRequiredPods(predicted_workload, config.workload_per_pod),
                     config.min_replicas)
         IN  IF pods_required >= current_replicas
             THEN ScaleOutDecision(pods_required, predicted_workload,
                                   current_replicas, config)
             ELSE ScaleInDecision(pods_required, predicted_workload,
                                  current_replicas, config)

\* calculate_scaling_decision, with the dictionary and the clock as arguments
CalculateScalingDecision(lst, t, deployment_name, predicted_workload, current_replicas, config) ==
    IF IsInCooldown(lst, deployment_name, config.cooldown_period, t)
    THEN ScalingDecision("no_action", current_replicas, current_replicas,
                         predicted_workload, <<>>)
    ELSE IF RequiredPodsRaises(predicted_workload, config.workload_per_pod)
    THEN ErrorDecision(predicted_workload, current_replicas)
    ELSE LET pods_required ==
                 Max(CalculateRequiredPods(predicted_workload, config.workload_per_pod),
                     config.min_replicas)
         IN  IF pods_required > current_replicas
             THEN ScaleOutDecision(pods_required, predicted_workload,
                                   current_replicas, config)
             ELSE IF pods_required < current_replicas
             THEN ScaleInDecision(pods_required, predicted_workload,
                                  current_replicas, config)
             ELSE ScalingDecision("no_action", current_replicas, current_replicas,
                                  predicted_workload, <<>>)

\* _get_cooldown_remaining (56-64), with the dictionary as an argument; t
\* is what its own datetime.now() returns (62).
GetCooldownRemaining(lst, deployment_name, cooldown_period, t) ==
    IF deployment_name \notin DOMAIN lst
    THEN 0
    ELSE Max(0, lst[deployment_name] + cooldown_period - t)

\* The reason of a decision is a string built from numbers: kind is the
\* text, a, b and c are the numbers it is formatted with ("none" is None).
Reason(kind, a, b, c) == [kind |-> kind, a |-> a, b |-> b, c |-> c]

\* The field reason of the decision calculate_scaling_decision returns.
\* The call reads the clock itself: t is what datetime.now() returns in
\* _is_in_cooldown (54) and t_remaining what it returns afterwards in
\* _get_cooldown_remaining (62), which only a call in cooldown reaches.
DecisionReason(lst, t, t_remaining, deployment_name, predicted_workload, current_replicas, config) ==
    IF IsInCooldown(lst, deployment_name, config.cooldown_period, t)
    THEN Reason("In cooldown period",
                GetCooldownRemaining(lst, deployment_name, config.cooldown_period,
                                     t_remaining),
                0, 0)
    ELSE IF RequiredPodsRaises(predicted_workload, config.workload_per_pod)
    THEN Reason("Error in scaling calculation", 0, 0, 0)
    ELSE LET pods_required ==
                 Max(CalculateRequiredPods(predicted_workload, config.workload_per_pod),
                     config.min_replicas)
             d == CalculateScalingDecision(lst, t, deployment_name,
                      predicted_workload, current_replicas, config)
         IN  IF pods_required > current_replicas
             THEN Reason("scaling out", pods_required, d.target_replicas, 0)
             ELSE IF pods_required < current_replicas
             THEN IF d.action = "scale_in"
                  THEN Reason("RRS removing", pods_required, d.pods_surplus[1],
                              current_replicas
                                  - Max(pods_required, config.min_replicas))
                  ELSE Reason("Error in scaling calculation", 0, 0, 0)
             ELSE Reason("none", 0, 0, 0)

\* What calculate_scaling_decision leaves in last_scaling_time: it assigns
\* to no attribute of the ScalingAlgorithm (71-140).
AfterDecision(lst, t, deployment_name, d) == lst

(***************************************************************************)
(* ModelHandler._validate_prediction.  historical_data is a list of        *)
(* one-element lists [v]; the model keeps the v's.  np.mean(h) > 0 and     *)
(* prediction > np.mean(h) * m are computed on sum and length.             *)
(***************************************************************************)
ValidationThresholds(spike, hist) ==
    [max_spike_multiplier |-> spike, max_historical_multiplier |-> hist]

\* A slip in _validate_prediction: the comparison with the historical
\* average is left out.
ValidateSpikeOnly(prediction, historical_data, thresholds) ==
    IF prediction < 0 THEN FALSE
    ELSE IF historical_data = <<>> THEN TRUE
    ELSE LET current_load == historical_data[Len(historical_data)]
         IN  ~(current_load > 0
               /\ prediction > current_load * thresholds.max_spike_multiplier)

ValidatePrediction(prediction, historical_data, thresholds) ==
    IF prediction < 0 THEN FALSE
    ELSE IF historical_data = <<>> THEN TRUE
    ELSE LET current_load == historical_data[Len(historical_data)]
             total == SumSeq(historical_data)
             n == Len(historical_data)
         IN  IF current_load > 0
                /\ prediction > current_load * thresholds.max_spike_multiplier
             THEN FALSE
             ELSE IF total > 0
                     /\ prediction * n > total * thresholds.max_historical_multiplier
             THEN FALSE
             ELSE TRUE

(***************************************************************************)
(* SpecDecide: calls of calculate_scaling_decision on every input          *)
(***************************************************************************)
\* Policies that satisfy the policy invariant 0 < min_replicas <=
\* max_replicas, 0 <= removal fraction <= 1, cooldown >= 0; workload_per_pod
\* 0 is kept, the code has a branch for it.
DecidePolicies ==
    { ScalingConfig(mn, mx, wpp, Fraction(q), cd) :
        mn \in 1..MaxPolicyReplicas, mx \in 1..MaxPolicyReplicas,
        wpp \in 0..MaxWorkloadPerPod, q \in 0..RrsDen, cd \in CooldownPeriods }

ValidPolicy(p) == 0 < p.min_replicas /\ p.min_replicas <= p.max_replicas

Calls ==
    [deployment_name : {"a"},
     predicted_workload : -1..MaxForecast,
     current_replicas : 0..MaxCurrent,
     config : {p \in DecidePolicies : ValidPolicy(p)}]

\* The cooldown states of target "a": never scaled, or scaled at some time.
CooldownStates ==
    {<<>>} \cup {[n \in {"a"} |-> t] : t \in {0, CycleSeconds}}

NoCall == [deployment_name |-> "none"]
NoCycle == [name |-> "none"]
NoReload == [status |-> "none", listed |-> {}, before |-> {}]

\* The variables of the other single-call specifications, at rest.
ProbesIdle ==
    /\ reads = NoCall
    /\ cycled = <<>>
    /\ query = NoCall
    /\ fetch = NoCall
    /\ fetched = <<>>
    /\ main = NoCall
    /\ load = NoCall
    /\ window = NoCall
    /\ deployment = NoCall

\* The loop's variables in the specifications of single calls.
LoopIdle ==
    /\ monitored_deployments = <<>>
    /\ last_crd_reload = 0
    /\ pc = "call"
    /\ deployment_names = <<>>
    /\ idx = 1
    /\ loop_start_time = 0
    /\ processed = {}
    /\ issued = <<>>
    /\ fail_run = [n \in Targets |-> 0]
    /\ start = 0
    /\ reloaded = NoReload
    /\ cycle = NoCycle

DecideInit ==
    /\ now \in CallTimes
    /\ last_scaling_time \in CooldownStates
    /\ call \in Calls
    /\ decision = <<>>
    /\ vcall = NoCall
    /\ verdict = <<>>
    /\ runs = NoCall
    /\ outcomes = <<>>
    /\ ProbesIdle
    /\ LoopIdle

Decide ==
    /\ decision = <<>>
    /\ decision' = <<CalculateScalingDecision(last_scaling_time, now,
                        call.deployment_name, call.predicted_workload,
                        call.current_replicas, call.config)>>
    /\ UNCHANGED <<now, last_scaling_time, call, vcall, verdict, runs, outcomes,
                   probevars, loopvars>>

DecideNext == Decide

SpecDecide == DecideInit /\ [][DecideNext]_vars

(***************************************************************************)
(* SpecDecideFaulty: calls of calculate_scaling_decision whose forecast    *)
(* may be NaN and whose policy may hold the string default of              *)
(* resource_removal_strategy                                               *)
(***************************************************************************)
FaultyPolicies ==
    { ScalingConfig(mn, MaxPolicyReplicas, wpp, rrs, cd) :
        mn \in 1..2, wpp \in 0..MaxWorkloadPerPod,
        rrs \in {Gradual, Fraction(2)}, cd \in {0, CycleSeconds} }

FaultyCalls ==
    [deployment_name : {"a"},
     predicted_workload : {NaN} \cup (0..MaxForecast),
     current_replicas : 0..MaxCurrent,
     config : FaultyPolicies]

FaultyInit ==
    /\ now = CycleSeconds
    /\ last_scaling_time \in CooldownStates
    /\ call \in FaultyCalls
    /\ decision = <<>>
    /\ vcall = NoCall
    /\ verdict = <<>>
    /\ runs = NoCall
    /\ outcomes = <<>>
    /\ ProbesIdle
    /\ LoopIdle

SpecDecideFaulty == FaultyInit /\ [][DecideNext]_vars

(***************************************************************************)
(* SpecDecideAny: one call of calculate_scaling_decision outside cooldown, *)
(* with a policy whose removal fraction is within [0, 1] and whose         *)
(* min_replicas and max_replicas are any (min_replicas 0 and               *)
(* min_replicas > max_replicas included).                                  *)
(***************************************************************************)
AnyPolicies ==
    { ScalingConfig(mn, mx, wpp, Fraction(q), 0) :
        mn \in 0..MaxPolicyReplicas, mx \in 1..MaxPolicyReplicas,
        wpp \in 0..MaxWorkloadPerPod, q \in 0..RrsDen }

AnyCalls ==
    [deployment_name : {"a"},
     predicted_workload : 0..MaxForecast,
     current_replicas : 0..MaxCurrent,
     config : AnyPolicies]

AnyInit ==
    /\ now = 0
    /\ last_scaling_time = <<>>
    /\ call \in AnyCalls
    /\ decision = <<>>
    /\ vcall = NoCall
    /\ verdict = <<>>
    /\ runs = NoCall
    /\ outcomes = <<>>
    /\ ProbesIdle
    /\ LoopIdle

SpecDecideAny == AnyInit /\ [][DecideNext]_vars

(***************************************************************************)
(* SpecDecideTwice: two calls of calculate_scaling_decision with the same  *)
(* arguments, the same cooldown dictionary and the clock at the same value *)
(* when the call begins.  The code does not take the time as an argument:  *)
(* it reads datetime.now() in _is_in_cooldown (54) and, in the cooldown    *)
(* branch, once more in _get_cooldown_remaining (62); between the two      *)
(* reads the clock goes on (the int() of 64 makes a step over a second     *)
(* boundary a whole second).  decision collects what the calls return, the *)
(* field reason included; call.lst keeps the cooldown dictionary from      *)
(* before the first call.                                                  *)
(***************************************************************************)
\* The seconds by which the second read of the clock (62) can be ahead of
\* the first (54).
ClockElapsed == 0..MaxElapsed

TwiceInit ==
    /\ now \in CallTimes
    /\ last_scaling_time \in CooldownStates
    /\ \E c \in FaultyCalls : call = c @@ [lst |-> last_scaling_time]
    /\ decision = <<>>
    /\ vcall = NoCall
    /\ verdict = <<>>
    /\ runs = NoCall
    /\ outcomes = <<>>
    /\ ProbesIdle
    /\ LoopIdle

DecideCall ==
    /\ Len(decision) < 2
    /\ \E elapsed \in ClockElapsed :
         LET d == CalculateScalingDecision(last_scaling_time, now,
                      call.deployment_name, call.predicted_workload,
                      call.current_replicas, call.config)
             reason == DecisionReason(last_scaling_time, now, now + elapsed,
                           call.deployment_name, call.predicted_workload,
                           call.current_replicas, call.config)
         IN  /\ decision' = Append(decision, d @@ [reason |-> reason])
             /\ last_scaling_time' =
                    AfterDecision(last_scaling_time, now, call.deployment_name, d)
    /\ UNCHANGED <<now, call, vcall, verdict, runs, outcomes, probevars, loopvars>>

DecideTwiceNext == DecideCall

SpecDecideTwice == TwiceInit /\ [][DecideTwiceNext]_vars

(***************************************************************************)
(* SpecValidate: calls of _validate_prediction on every input              *)
(***************************************************************************)
Histories == UNION {[1..n -> 0..MaxLoad] : n \in 0..MaxHistory}

ValidateCalls ==
    [prediction : -1..MaxForecast,
     historical_data : Histories,
     thresholds : {ValidationThresholds(s, h) :
                     s \in 1..MaxMultiplier, h \in 1..MaxMultiplier}]

ValidateInit ==
    /\ now = 0
    /\ last_scaling_time = <<>>
    /\ call = NoCall
    /\ decision = <<>>
    /\ vcall \in ValidateCalls
    /\ verdict = <<>>
    /\ runs = NoCall
    /\ outcomes = <<>>
    /\ ProbesIdle
    /\ LoopIdle

Validate ==
    /\ verdict = <<>>
    /\ verdict' = <<ValidatePrediction(vcall.prediction, vcall.historical_data,
                                       vcall.thresholds)>>
    /\ UNCHANGED <<now, last_scaling_time, call, decision, vcall, runs, outcomes,
                   probevars, loopvars>>

ValidateNext == Validate

SpecValidate == ValidateInit /\ [][ValidateNext]_vars

(***************************************************************************)
(* AIHorizontalPodAutoscaler: the registry                                 *)
(*                                                                         *)
(* monitored_deployments is a Python dict: the model keeps it as the       *)
(* sequence of its entries in insertion order, each entry carrying its     *)
(* key in the field name.                                                  *)
(***************************************************************************)
Keys(md) == [i \in 1..Len(md) |-> md[i].name]
Has(md, n) == \E i \in 1..Len(md) : md[i].name = n
Get(md, n) == md[CHOOSE i \in 1..Len(md) : md[i].name = n]
Put(md, e) ==
    IF Has(md, e.name)
    THEN [i \in 1..Len(md) |-> IF md[i].name = e.name THEN e ELSE md[i]]
    ELSE Append(md, e)
Del(md, n) == SelectSeq(md, LAMBDA e : e.name # n)

\* An entry of the registry.  Its field last_processed is written and never
\* read by the program: the model keeps the value a cycle assigns to it in
\* the observation of that cycle (cycle.last_processed), not in the entry.
Entry(n, config, errors) ==
    [name |-> n, scaling_config |-> config, error_count |-> errors]

\* dict.get(key, default) on a field that is there (<<v>>) or not (<<>>).
OrDefault(field, default) == IF field = <<>> THEN default ELSE field[1]

\* The scalingConfig of a policy as the policy source delivers it: each
\* field is there or not.
Delivered(mn, mx, wpp, rrs, cd) ==
    [minReplicas |-> mn, maxReplicas |-> mx, workloadPerPod |-> wpp,
     resourceRemovalStrategy |-> rrs, cooldownPeriod |-> cd]

\* A policy that delivers every field of p.
DeliveredAll(p) ==
    Delivered(<<p.min_replicas>>, <<p.max_replicas>>, <<p.workload_per_pod>>,
              <<p.resource_removal_strategy>>, <<p.cooldown_period>>)

\* Lines 226-233: the values are taken as they come, the defaults fill in.
ScalingConfigOf(scaling_cfg) ==
    ScalingConfig(OrDefault(scaling_cfg.minReplicas, DefaultMinReplicas),
                  OrDefault(scaling_cfg.maxReplicas, DefaultMaxReplicas),
                  OrDefault(scaling_cfg.workloadPerPod, DefaultWorkloadPerPod),
                  OrDefault(scaling_cfg.resourceRemovalStrategy, Gradual),
                  OrDefault(scaling_cfg.cooldownPeriod, DefaultCooldownPeriod))

\* The queryTemplate main.py:223 stores when the policy has none: its
\* placeholders are {service_name} and {window}, which the call
\* template.format(service=...) of prometheus_client.py:155 does not supply.
DefaultQueryTemplate == "other_placeholder"

\* The prometheusConfig of a policy as the policy source delivers it.
DeliveredQuery(windowMinute, queryTemplate) ==
    [windowMinute |-> windowMinute, queryTemplate |-> queryTemplate]

\* Lines 220-224: the QueryConfig, the defaults filling in.
QueryConfigOf(prometheus_config) ==
    [window_minutes |-> OrDefault(prometheus_config.windowMinute, DefaultWindowMinutes),
     query_template |-> OrDefault(prometheus_config.queryTemplate, DefaultQueryTemplate)]

\* Lines 204-206 and 217-218: a required field is missing ("" stands for a
\* field that is absent, None or empty) and ValueError is raised.
MissingRequiredField(crd) ==
    \/ crd.targetDeployment = ""
    \/ crd.prometheusService = ""

\* A slip in _process_crd_configuration: the entry is stored before the
\* metrics service is looked at.
ProcessCrdStoresFirst(md, crd) ==
    IF crd.targetDeployment = ""
    THEN md
    ELSE Put(md, Entry(crd.targetDeployment, ScalingConfigOf(crd.scalingConfig), 0))

\* _process_crd_configuration: it raises on a missing required field before
\* anything is stored, and _load_crd_configurations goes on with the next
\* item (163-169); otherwise the entry is stored anew, whatever was there.
ProcessCrdConfiguration(md, crd) ==
    IF MissingRequiredField(crd)
    THEN md
    ELSE Put(md, Entry(crd.targetDeployment, ScalingConfigOf(crd.scalingConfig), 0))

\* _load_crd_configurations on the items the policy source returned.
RECURSIVE LoadCrdConfigurations(_, _)
LoadCrdConfigurations(md, items) ==
    IF items = <<>>
    THEN md
    ELSE LoadCrdConfigurations(ProcessCrdConfiguration(md, Head(items)), Tail(items))

\* A slip in the reload: only the policies of targets the registry holds
\* are taken, so a target that was removed does not come back.
ReloadRefreshesOnly(md, ok, items) ==
    IF ok
    THEN LoadCrdConfigurations(md,
             SelectSeq(items, LAMBDA crd : Has(md, crd.targetDeployment)))
    ELSE md

\* A slip in the reload: the registry is emptied before the policy source is
\* asked, so a failed call leaves it empty.
ReloadClearsFirst(md, ok, items) ==
    IF ok THEN LoadCrdConfigurations(<<>>, items) ELSE <<>>

\* _reload_crd_configurations: ok is whether the call of the policy source
\* returned; when it raised, the exception is caught (193-194) and nothing
\* was stored.
ReloadCrdConfigurations(md, ok, items) ==
    IF ok THEN LoadCrdConfigurations(md, items) ELSE md

\* A slip in the reload: the cooldown of the targets the policy source lists
\* is forgotten.
ReloadForgetsCooldown(lst, ok, items) ==
    IF ok
    THEN LET listed == {items[i].targetDeployment : i \in 1..Len(items)}
         IN  [n \in DOMAIN lst \ listed |-> lst[n]]
    ELSE lst

\* What a reload leaves in last_scaling_time: the dictionary belongs to the
\* ScalingAlgorithm made in __init__ (25), and neither
\* _reload_crd_configurations nor what it calls touches it.
ReloadCooldown(lst, ok, items) == lst

(***************************************************************************)
(* ScalingAlgorithm.execute_scaling_decision at time t                     *)
(***************************************************************************)
\* A slip in execute_scaling_decision: the time of the action is not kept.
ExecuteForgets(lst, deployment_name, d, t) == lst

ExecuteScalingDecision(lst, deployment_name, d, t) ==
    IF d.action \in {"scale_out", "scale_in"}
    THEN [n \in DOMAIN lst \cup {deployment_name} |->
             IF n = deployment_name THEN t ELSE lst[n]]
    ELSE lst

(***************************************************************************)
(* _process_deployment                                                     *)
(*                                                                         *)
(* in.outcome is what the collaborators do in this cycle:                  *)
(*   "read_failed"    _get_current_replicas returns None       (377-380)   *)
(*   "no_metrics"     _get_historical_metrics returns nothing  (387-392)   *)
(*   "no_prediction"  _make_prediction returns None            (404-409)   *)
(*   "exception"      a statement of the try block raises      (445-449)   *)
(*   "decided"        a forecast is there and a decision is computed       *)
(* in.took is the time the cycle's calls take (the reads, the fetch with   *)
(* its retries and backoff, the prediction); the decision, the patch and   *)
(* the datetime.now() that records it follow at one instant.  in.patch_ok  *)
(* is whether the patch succeeds.                                          *)
(***************************************************************************)
Durations == {0, CycleSeconds}

FailureOutcomes == {"read_failed", "no_metrics", "no_prediction", "exception"}

CycleInputs ==
    [outcome : FailureOutcomes, took : Durations,
     current_replicas : {0}, predicted_workload : {0}, patch_ok : {FALSE}]
    \cup
    [outcome : {"decided"}, took : Durations,
     current_replicas : {1, MaxPolicyReplicas},
     predicted_workload : {1, MaxPolicyReplicas}, patch_ok : BOOLEAN]

IsScaling(d) == d.action \in {"scale_out", "scale_in"}

\* A slip in _process_deployment: execute_scaling_decision is called before
\* the result of the patch is looked at, so a failed patch starts a cooldown.
ProcessDeploymentStampsFirst(entry, lst, t0, in) ==
    LET name == entry.name
        t1 == t0 + in.took
        d == CalculateScalingDecision(lst, t1, name, in.predicted_workload,
                                      in.current_replicas, entry.scaling_config)
        seen == [name |-> name, outcome |-> in.outcome, at |-> t1,
                 config |-> entry.scaling_config,
                 current_replicas |-> in.current_replicas,
                 predicted_workload |-> in.predicted_workload,
                 action |-> "none", target_replicas |-> 0,
                 patched |-> FALSE, applied |-> FALSE, last_processed |-> <<>>]
    IN  IF in.outcome \in FailureOutcomes
        THEN [entry |-> [entry EXCEPT !.error_count = @ + 1],
              lst |-> lst, now |-> t1, seen |-> seen]
        ELSE IF IsScaling(d)
        THEN IF in.patch_ok
             THEN [entry |-> [entry EXCEPT !.error_count = 0],
                   lst |-> ExecuteScalingDecision(lst, name, d, t1),
                   now |-> t1,
                   seen |-> [seen EXCEPT !.action = d.action,
                                         !.target_replicas = d.target_replicas,
                                         !.patched = TRUE, !.applied = TRUE,
                                         !.last_processed = <<t1>>]]
             ELSE [entry |-> [entry EXCEPT !.error_count = @ + 1],
                   lst |-> ExecuteScalingDecision(lst, name, d, t1),
                   now |-> t1,
                   seen |-> [seen EXCEPT !.action = d.action,
                                         !.target_replicas = d.target_replicas,
                                         !.patched = TRUE,
                                         !.last_processed = <<t1>>]]
        ELSE [entry |-> [entry EXCEPT !.error_count = 0],
              lst |-> lst, now |-> t1,
              seen |-> [seen EXCEPT !.action = d.action,
                                    !.target_replicas = d.target_replicas,
                                    !.last_processed = <<t1>>]]

\* A slip in _process_deployment: the else branch of "if success" is missing,
\* so a failed patch leaves error_count as it was.
ProcessDeploymentKeepsCount(entry, lst, t0, in) ==
    LET name == entry.name
        t1 == t0 + in.took
        d == CalculateScalingDecision(lst, t1, name, in.predicted_workload,
                                      in.current_replicas, entry.scaling_config)
        seen == [name |-> name, outcome |-> in.outcome, at |-> t1,
                 config |-> entry.scaling_config,
                 current_replicas |-> in.current_replicas,
                 predicted_workload |-> in.predicted_workload,
                 action |-> "none", target_replicas |-> 0,
                 patched |-> FALSE, applied |-> FALSE, last_processed |-> <<>>]
    IN  IF in.outcome \in FailureOutcomes
        THEN [entry |-> [entry EXCEPT !.error_count = @ + 1],
              lst |-> lst, now |-> t1, seen |-> seen]
        ELSE IF IsScaling(d)
        THEN IF in.patch_ok
             THEN [entry |-> [entry EXCEPT !.error_count = 0],
                   lst |-> ExecuteScalingDecision(lst, name, d, t1),
                   now |-> t1,
                   seen |-> [seen EXCEPT !.action = d.action,
                                         !.target_replicas = d.target_replicas,
                                         !.patched = TRUE, !.applied = TRUE,
                                         !.last_processed = <<t1>>]]
             ELSE [entry |-> entry,
                   lst |-> lst,
                   now |-> t1,
                   seen |-> [seen EXCEPT !.action = d.action,
                                         !.target_replicas = d.target_replicas,
                                         !.patched = TRUE,
                                         !.last_processed = <<t1>>]]
        ELSE [entry |-> [entry EXCEPT !.error_count = 0],
              lst |-> lst, now |-> t1,
              seen |-> [seen EXCEPT !.action = d.action,
                                    !.target_replicas = d.target_replicas,
                                    !.last_processed = <<t1>>]]

\* The result: the target's registry entry, the cooldown dictionary and the
\* clock after the call, and what an observer of the call saw.
ProcessDeployment(entry, lst, t0, in) ==
    LET name == entry.name
        t1 == t0 + in.took
        d == CalculateScalingDecision(lst, t1, name, in.predicted_workload,
                                      in.current_replicas, entry.scaling_config)
        seen == [name |-> name, outcome |-> in.outcome, at |-> t1,
                 config |-> entry.scaling_config,
                 current_replicas |-> in.current_replicas,
                 predicted_workload |-> in.predicted_workload,
                 action |-> "none", target_replicas |-> 0,
                 patched |-> FALSE, applied |-> FALSE, last_processed |-> <<>>]
    IN  IF in.outcome \in FailureOutcomes
        THEN [entry |-> [entry EXCEPT !.error_count = @ + 1],
              lst |-> lst, now |-> t1, seen |-> seen]
        ELSE IF IsScaling(d)
        THEN IF in.patch_ok
             THEN [entry |-> [entry EXCEPT !.error_count = 0],
                   lst |-> ExecuteScalingDecision(lst, name, d, t1),
                   now |-> t1,
                   seen |-> [seen EXCEPT !.action = d.action,
                                         !.target_replicas = d.target_replicas,
                                         !.patched = TRUE, !.applied = TRUE,
                                         !.last_processed = <<t1>>]]
             ELSE [entry |-> [entry EXCEPT !.error_count = @ + 1],
                   lst |-> lst,
                   now |-> t1,
                   seen |-> [seen EXCEPT !.action = d.action,
                                         !.target_replicas = d.target_replicas,
                                         !.patched = TRUE,
                                         !.last_processed = <<t1>>]]
        ELSE [entry |-> [entry EXCEPT !.error_count = 0],
              lst |-> lst, now |-> t1,
              seen |-> [seen EXCEPT !.action = d.action,
                                    !.target_replicas = d.target_replicas,
                                    !.last_processed = <<t1>>]]

(***************************************************************************)
(* run(): one action per step of the loop                                  *)
(***************************************************************************)
\* The clock stops MaxLoops cycles after the start of the observation.
MaxTime == start + MaxLoops * CycleSeconds

\* A slip in the handlers of run() and _process_deployment: an exception of
\* the try block is not caught.
ExceptionEscapes(outcome) == outcome = "exception"

\* Whether a failure of a cycle leaves _process_deployment and the try of
\* run() (503-509): both catch Exception, nothing does.
Escapes(outcome) == FALSE

\* The policies the policy source delivers for the loop.
LoopPolicies ==
    { ScalingConfig(1, MaxPolicyReplicas, 1, Fraction(2), cd) :
        cd \in {CycleSeconds, 2 * CycleSeconds} }

Crds ==
    [targetDeployment : Targets, prometheusService : {"svc"},
     scalingConfig : {DeliveredAll(p) : p \in LoopPolicies}]

\* What list_namespaced_custom_object returns: no item, or items for
\* distinct targets in some order.
CrdLists ==
    {<<>>} \cup {<<c>> : c \in Crds}
    \cup {<<c1, c2>> : c1 \in {c \in Crds : c.targetDeployment = "a"},
                       c2 \in {c \in Crds : c.targetDeployment = "b"}}
    \cup {<<c2, c1>> : c1 \in {c \in Crds : c.targetDeployment = "a"},
                       c2 \in {c \in Crds : c.targetDeployment = "b"}}

\* The loop is followed for MaxLoops cycles from its start, and for MaxLoops
\* cycles from the state it is in after EvictionThreshold - 1 cycles in
\* which the metrics fetch of every target failed at once (no time spent,
\* no reload due yet): such a prefix leaves on every entry error_count =
\* its length and moves the clock by CycleSeconds per cycle.
Prefixes == {0, EvictionThreshold - 1}

\* After __init__ and initialize(): last_crd_reload was taken at
\* construction, the policies are loaded, the clock is at the start of run().
Init ==
  \E k \in Prefixes, items \in CrdLists :
    /\ now = k * CycleSeconds
    /\ start = now
    /\ monitored_deployments =
         LET md == LoadCrdConfigurations(<<>>, items)
         IN  [i \in 1..Len(md) |-> [md[i] EXCEPT !.error_count = k]]
    /\ fail_run = [n \in Targets |->
                     IF Has(LoadCrdConfigurations(<<>>, items), n) THEN k ELSE 0]
    /\ last_scaling_time = <<>>
    /\ call = NoCall
    /\ decision = <<>>
    /\ vcall = NoCall
    /\ verdict = <<>>
    /\ runs = NoCall
    /\ outcomes = <<>>
    /\ ProbesIdle
    /\ last_crd_reload = 0
    /\ pc = "loop_top"
    /\ deployment_names = <<>>
    /\ idx = 1
    /\ loop_start_time = 0
    /\ processed = {}
    /\ issued = <<>>
    /\ reloaded = NoReload
    /\ cycle = NoCycle

\* Lines 481-495: the top of the while loop.
LoopTop ==
    /\ pc = "loop_top"
    /\ loop_start_time' = now
    /\ deployment_names' = Keys(monitored_deployments)
    /\ idx' = 1
    /\ processed' = {}
    /\ pc' = IF monitored_deployments = <<>> THEN "reload" ELSE "targets"
    /\ cycle' = NoCycle
    /\ reloaded' = NoReload
    /\ UNCHANGED <<now, last_scaling_time, callvars, monitored_deployments,
                   last_crd_reload, issued, fail_run, start>>

\* A slip in the eviction test: one more failure is tolerated.
EvictsLate(error_count) == error_count > EvictionThreshold + 1

\* Line 512: the target is removed when its counter is above the threshold.
Evicts(error_count) == error_count > EvictionThreshold

\* Lines 497-517: the body of the for loop for the next name of the snapshot.
ProcessNext ==
    /\ pc = "targets"
    /\ LET name == deployment_names[idx]
           after == IF idx + 1 > Len(deployment_names) THEN "reload" ELSE "targets"
       IN  IF ~Has(monitored_deployments, name)
           THEN /\ idx' = idx + 1
                /\ pc' = after
                /\ UNCHANGED <<now, last_scaling_time, monitored_deployments,
                               processed, issued, fail_run, cycle>>
           ELSE \E in \in CycleInputs :
                  LET r == ProcessDeployment(Get(monitored_deployments, name),
                                             last_scaling_time, now, in)
                      evict == Evicts(r.entry.error_count)
                  IN  /\ r.now <= MaxTime
                      /\ now' = r.now
                      /\ processed' = processed \cup {name}
                      /\ cycle' = r.seen @@
                             [last_applied |->
                                 IF name \in DOMAIN issued
                                 THEN <<issued[name]>> ELSE <<>>]
                      /\ issued' =
                           IF r.seen.applied
                           THEN [n \in DOMAIN issued \cup {name} |->
                                    IF n = name THEN r.seen.at ELSE issued[n]]
                           ELSE issued
                      /\ fail_run' =
                           [fail_run EXCEPT ![name] =
                               IF in.outcome = "no_metrics" /\ ~evict
                               THEN @ + 1 ELSE 0]
                      /\ IF Escapes(in.outcome)
                         THEN /\ pc' = "crashed"
                              /\ UNCHANGED <<last_scaling_time, monitored_deployments, idx>>
                         ELSE /\ last_scaling_time' = r.lst
                              /\ monitored_deployments' =
                                   IF evict
                                   THEN Del(monitored_deployments, name)
                                   ELSE Put(monitored_deployments, r.entry)
                              /\ idx' = idx + 1
                              /\ pc' = after
    /\ UNCHANGED <<callvars, last_crd_reload, deployment_names, loop_start_time,
                   start, reloaded>>

\* Lines 519-526: the periodic reload.  _reload_crd_configurations catches
\* the failure of the policy source, so last_crd_reload is set either way.
ReloadCheck ==
    /\ pc = "reload"
    /\ pc' = "sleep"
    /\ IF now - last_crd_reload >= ReloadSeconds
       THEN \E ok \in BOOLEAN, items \in CrdLists, d \in Durations :
              /\ now + d <= MaxTime
              /\ now' = now + d
              /\ monitored_deployments' =
                   ReloadCrdConfigurations(monitored_deployments, ok, items)
              /\ last_scaling_time' =
                   ReloadCooldown(last_scaling_time, ok, items)
              /\ last_crd_reload' = now
              /\ reloaded' =
                   IF ok
                   THEN [status |-> "loaded",
                         listed |-> {items[i].targetDeployment : i \in 1..Len(items)},
                         before |-> {n \in Targets : Has(monitored_deployments, n)}]
                   ELSE [status |-> "failed", listed |-> {},
                         before |-> {n \in Targets : Has(monitored_deployments, n)}]
       ELSE UNCHANGED <<now, monitored_deployments, last_scaling_time,
                        last_crd_reload, reloaded>>
    /\ cycle' = NoCycle
    /\ UNCHANGED <<callvars, deployment_names, idx, loop_start_time, processed,
                   issued, fail_run, start>>

\* A slip in the sleep time: a full cycle, whatever the iteration took.
SleepTimeFixed(loop_duration) == CycleSeconds

\* Line 530.
SleepTime(loop_duration) == Max(0, CycleSeconds - loop_duration)

\* Lines 528-539: sleep for the rest of the cycle.
Sleep ==
    /\ pc = "sleep"
    /\ LET loop_duration == now - loop_start_time
           sleep_time == SleepTime(loop_duration)
       IN  /\ now + sleep_time <= MaxTime
           /\ now' = now + sleep_time
    /\ pc' = "loop_top"
    /\ UNCHANGED <<last_scaling_time, callvars, monitored_deployments,
                   last_crd_reload, deployment_names, idx, loop_start_time,
                   processed, issued, fail_run, start, reloaded, cycle>>

Next == LoopTop \/ ProcessNext \/ ReloadCheck \/ Sleep

Spec == Init /\ [][Next]_vars

(***************************************************************************)
(* SpecTwoRuns: the cycle of one target in two runs of the loop that agree *)
(* on the target's own state (runs.entry, runs.lst) and inputs (runs.in)   *)
(* and on the start of the iteration (runs.t0), and differ in the time the *)
(* targets processed before it take (runs.others1, runs.others2).          *)
(***************************************************************************)
TwoRuns ==
    [entry : {Entry("a", p, e) : p \in LoopPolicies, e \in {0, 1}},
     lst : CooldownStates,
     t0 : CallTimes,
     in : CycleInputs,
     others1 : Durations,
     others2 : Durations]

\* What the cycle leaves for the target: its decision and its error counter.
Outcome(r) ==
    [action |-> r.seen.action, target_replicas |-> r.seen.target_replicas,
     applied |-> r.seen.applied, error_count |-> r.entry.error_count]

TwoRunsInit ==
    /\ now = 0
    /\ last_scaling_time = <<>>
    /\ call = NoCall
    /\ decision = <<>>
    /\ vcall = NoCall
    /\ verdict = <<>>
    /\ runs \in TwoRuns
    /\ outcomes = <<>>
    /\ ProbesIdle
    /\ LoopIdle

RunBoth ==
    /\ outcomes = <<>>
    /\ outcomes' =
         << Outcome(ProcessDeployment(runs.entry, runs.lst,
                                      runs.t0 + runs.others1, runs.in)),
            Outcome(ProcessDeployment(runs.entry, runs.lst,
                                      runs.t0 + runs.others2, runs.in)) >>
    /\ UNCHANGED <<now, last_scaling_time, call, decision, vcall, verdict, runs,
                   probevars, loopvars>>

TwoRunsNext == RunBoth

SpecTwoRuns == TwoRunsInit /\ [][TwoRunsNext]_vars

(***************************************************************************)
(* The collaborators of _process_deployment                                *)
(*                                                                         *)
(* What get_historical_workload returns is a record: ok is FALSE for None; *)
(* boxed tells a list of one-element lists [[v], ...] (the aligned window, *)
(* prometheus_client.py 190) from a flat list [v, ...] (the window of      *)
(* zeros, prometheus_client.py 169); values are the v's.                   *)
(***************************************************************************)
FetchNone == [ok |-> FALSE, boxed |-> FALSE, values |-> <<>>]
FetchFlat(vs) == [ok |-> TRUE, boxed |-> FALSE, values |-> vs]
FetchBoxed(vs) == [ok |-> TRUE, boxed |-> TRUE, values |-> vs]

\* _get_historical_metrics: None and the empty list both come back as None.
GetHistoricalMetrics(metrics) ==
    IF ~metrics.ok \/ metrics.values = <<>> THEN FetchNone ELSE metrics

\* A slip in _make_prediction: a long window is cut to its first values.
PadOrTruncateOldest(vs) ==
    IF Len(vs) < ModelWindow
    THEN LET last_value == IF vs = <<>> THEN 0 ELSE vs[Len(vs)]
         IN  vs \o [i \in 1..(ModelWindow - Len(vs)) |-> last_value]
    ELSE SubSeq(vs, 1, ModelWindow)

\* Lines 301-311 of _make_prediction: pad with the last value, or keep the
\* last ModelWindow values.
PadOrTruncate(vs) ==
    IF Len(vs) < ModelWindow
    THEN LET last_value == IF vs = <<>> THEN 0 ELSE vs[Len(vs)]
         IN  vs \o [i \in 1..(ModelWindow - Len(vs)) |-> last_value]
    ELSE SubSeq(vs, Len(vs) - ModelWindow + 1, Len(vs))

\* A slip in predict: the forecast is returned without being validated.
PredictUnvalidated(historical_data, raw, thresholds) == raw

\* ModelHandler.predict.  raw is what the model and the inverse transform
\* give (scaled_prediction), <<>> when the model is not loaded or returns
\* nothing; the result is <<>> for None.
Predict(historical_data, raw, thresholds) ==
    IF raw = <<>> THEN <<>>
    ELSE IF ~ValidatePrediction(raw[1], historical_data, thresholds) THEN <<>>
    ELSE raw

\* _make_prediction.  The scaler's fit_transform takes a 2-D array: on a
\* flat list it raises, and the except branch returns None.
MakePrediction(historical_data, raw, thresholds) ==
    IF ~historical_data.boxed
    THEN <<>>
    ELSE Predict(PadOrTruncate(historical_data.values), raw, thresholds)

\* What a call of _process_deployment meets, from what its collaborators
\* return: rd.current_replicas (<<>> for None), rd.metrics, rd.raw,
\* rd.patch_ok.
CycleInput(rd) ==
    LET historical_data == GetHistoricalMetrics(rd.metrics)
        predicted_workload == MakePrediction(historical_data, rd.raw, rd.thresholds)
        failed(o) == [outcome |-> o, took |-> rd.took, current_replicas |-> 0,
                      predicted_workload |-> 0, patch_ok |-> FALSE]
    IN  IF rd.current_replicas = <<>> THEN failed("read_failed")
        ELSE IF ~historical_data.ok THEN failed("no_metrics")
        ELSE IF predicted_workload = <<>> THEN failed("no_prediction")
        ELSE [outcome |-> "decided", took |-> rd.took,
              current_replicas |-> rd.current_replicas[1],
              predicted_workload |-> predicted_workload[1],
              patch_ok |-> rd.patch_ok]

(***************************************************************************)
(* SpecCycle: one call of _process_deployment, on every combination of     *)
(* what its collaborators return                                           *)
(***************************************************************************)
CycleMetrics ==
    {FetchNone, FetchFlat(<<>>)}
    \cup {FetchFlat([i \in 1..n |-> 0]) : n \in 1..2}
    \cup {FetchBoxed(vs) : vs \in UNION {[1..n -> {0, 1, MaxLoad}] : n \in 1..2}}

CycleReads ==
    [entry : {Entry("a", p, e) : p \in LoopPolicies, e \in {0, EvictionThreshold}},
     lst : CooldownStates,
     t0 : {CycleSeconds},
     took : {0},
     thresholds : {ValidationThresholds(s, h) :
                     s \in {1, MaxMultiplier}, h \in {1, MaxMultiplier}},
     current_replicas : {<<>>, <<1>>, <<MaxPolicyReplicas>>},
     metrics : CycleMetrics,
     raw : {<<>>} \cup {<<p>> : p \in {-1, 0, 1, MaxPolicyReplicas, MaxForecast}},
     patch_ok : BOOLEAN]

CycleInit ==
    /\ now = 0
    /\ last_scaling_time = <<>>
    /\ call = NoCall
    /\ decision = <<>>
    /\ vcall = NoCall
    /\ verdict = <<>>
    /\ runs = NoCall
    /\ outcomes = <<>>
    /\ reads \in CycleReads
    /\ cycled = <<>>
    /\ query = NoCall
    /\ fetch = NoCall
    /\ fetched = <<>>
    /\ main = NoCall
    /\ load = NoCall
    /\ window = NoCall
    /\ deployment = NoCall
    /\ LoopIdle

RunCycle ==
    /\ cycled = <<>>
    /\ cycled' = <<ProcessDeployment(reads.entry, reads.lst, reads.t0,
                                     CycleInput(reads))>>
    /\ UNCHANGED <<now, last_scaling_time, call, decision, vcall, verdict, runs,
                   outcomes, reads, query, fetch, fetched, main, load, window,
                   deployment, loopvars>>

CycleNext == RunCycle

SpecCycle == CycleInit /\ [][CycleNext]_vars

(***************************************************************************)
(* PrometheusClient._execute_range_query                                   *)
(*                                                                         *)
(* What an attempt of the for loop (82-114) meets:                         *)
(*   "success"          a 2xx answer whose body has status 'success'       *)
(*   "connection_error" session.get raises (no connection, timeout)        *)
(*   "http_error"       an answer with a 4xx or 5xx status: raise_for_     *)
(*                      status raises HTTPError, a RequestException        *)
(*   "invalid_json"     response.json() raises on the body                 *)
(*   "error_status"     a 2xx answer whose body has another status: the    *)
(*                      code raises Exception (94-95)                      *)
(* The exception of response.json() is a RequestException in the requests  *)
(* library from 2.27 on and a plain ValueError before: which one the       *)
(* program runs with is the field json_error_is_request_exception.         *)
(***************************************************************************)
Answers ==
    {"success", "connection_error", "http_error", "invalid_json", "error_status"}

\* A slip in the backoff: 2 * attempt where the code has 2 ** attempt.
WaitTimeLinear(attempt) == 2 * attempt

\* Line 105.
WaitTime(attempt) == 2 ^ attempt

\* Whether the exception of an attempt is caught at line 103.
IsRequestException(q, answer) ==
    \/ answer \in {"connection_error", "http_error"}
    \/ answer = "invalid_json" /\ q.json_error_is_request_exception

\* One iteration of the for loop, the sleep included.  q.attempt is the loop
\* variable, q.slept the sleeps so far, q.result "pending" while the loop
\* runs, then "data" or "none" for what is returned.
Attempt(q, answer) ==
    IF answer = "success"
    THEN [q EXCEPT !.answers = Append(@, answer), !.consecutive_failures = 0,
                   !.is_healthy = TRUE, !.result = "data"]
    ELSE IF IsRequestException(q, answer)
    THEN IF q.attempt < MaxRetries - 1
         THEN [q EXCEPT !.answers = Append(@, answer),
                        !.slept = Append(@, WaitTime(q.attempt)),
                        !.attempt = @ + 1]
         ELSE [q EXCEPT !.answers = Append(@, answer),
                        !.consecutive_failures = @ + 1,
                        !.is_healthy = FALSE, !.result = "none"]
    ELSE [q EXCEPT !.answers = Append(@, answer), !.consecutive_failures = @ + 1,
                   !.is_healthy = FALSE, !.result = "none"]

(***************************************************************************)
(* SpecQuery: one call of _execute_range_query, attempt by attempt         *)
(***************************************************************************)
Queries ==
    [attempt : {0}, answers : {<<>>}, slept : {<<>>}, result : {"pending"},
     consecutive_failures : {0, 1}, is_healthy : BOOLEAN,
     json_error_is_request_exception : BOOLEAN]

QueryInit ==
    /\ now = 0
    /\ last_scaling_time = <<>>
    /\ call = NoCall
    /\ decision = <<>>
    /\ vcall = NoCall
    /\ verdict = <<>>
    /\ runs = NoCall
    /\ outcomes = <<>>
    /\ reads = NoCall
    /\ cycled = <<>>
    /\ query \in Queries
    /\ fetch = NoCall
    /\ fetched = <<>>
    /\ main = NoCall
    /\ load = NoCall
    /\ window = NoCall
    /\ deployment = NoCall
    /\ LoopIdle

QueryAttempt ==
    /\ query.result = "pending"
    /\ \E answer \in Answers :
         /\ query' = Attempt(query, answer)
         /\ now' = now + SumSeq(query'.slept) - SumSeq(query.slept)
    /\ UNCHANGED <<last_scaling_time, call, decision, vcall, verdict, runs,
                   outcomes, reads, cycled, fetch, fetched, main, load, window,
                   deployment, loopvars>>

QueryNext == QueryAttempt

SpecQuery == QueryInit /\ [][QueryNext]_vars

(***************************************************************************)
(* PrometheusClient._parse_query_result and get_historical_workload        *)
(*                                                                         *)
(* A sample is a record [ts, value]: ts in seconds, value a number or NaN  *)
(* for the string 'NaN'.  The result of a query is a sequence of series,   *)
(* a series the sequence of its samples.                                   *)
(***************************************************************************)
Sample(ts, value) == [ts |-> ts, value |-> value]

RECURSIVE Flatten(_)
Flatten(result) ==
    IF result = <<>> THEN <<>> ELSE Head(result) \o Flatten(Tail(result))

\* list.sort(key=timestamp) is stable: x goes behind the samples that are
\* not later than it.
RECURSIVE InsertByTimestamp(_, _)
InsertByTimestamp(sorted, x) ==
    IF sorted = <<>> THEN <<x>>
    ELSE IF Head(sorted).ts <= x.ts
    THEN <<Head(sorted)>> \o InsertByTimestamp(Tail(sorted), x)
    ELSE <<x>> \o sorted

RECURSIVE SortByTimestamp(_)
SortByTimestamp(samples) ==
    IF samples = <<>> THEN <<>>
    ELSE InsertByTimestamp(SortByTimestamp(SubSeq(samples, 1, Len(samples) - 1)),
                           samples[Len(samples)])

\* _parse_query_result: the series flattened, 'NaN' read as 0.0, sorted.
ParseQueryResult(result) ==
    LET flat == Flatten(result)
    IN  SortByTimestamp([i \in 1..Len(flat) |->
            Sample(flat[i].ts, IF flat[i].value = NaN THEN 0 ELSE flat[i].value)])

Abs(x) == IF x < 0 THEN -x ELSE x

\* A slip in the search: the first sample within the tolerance is taken, not
\* the closest one.
RECURSIVE ClosestValueFirstWithin(_, _, _, _)
ClosestValueFirstWithin(parsed_data, expected_ts, closest_value, closest_diff) ==
    IF parsed_data = <<>> THEN closest_value
    ELSE LET diff == Abs(Head(parsed_data).ts - expected_ts)
         IN  IF closest_diff = <<>> /\ diff <= Tolerance
             THEN ClosestValueFirstWithin(Tail(parsed_data), expected_ts,
                                          Head(parsed_data).value, <<diff>>)
             ELSE ClosestValueFirstWithin(Tail(parsed_data), expected_ts,
                                          closest_value, closest_diff)

\* Lines 181-188: the inner loop over the samples for one expected
\* timestamp; closest_diff is <<>> for float('inf').
RECURSIVE ClosestValue(_, _, _, _)
ClosestValue(parsed_data, expected_ts, closest_value, closest_diff) ==
    IF parsed_data = <<>> THEN closest_value
    ELSE LET diff == Abs(Head(parsed_data).ts - expected_ts)
         IN  IF (closest_diff = <<>> \/ diff < closest_diff[1]) /\ diff <= Tolerance
             THEN ClosestValue(Tail(parsed_data), expected_ts,
                               Head(parsed_data).value, <<diff>>)
             ELSE ClosestValue(Tail(parsed_data), expected_ts,
                               closest_value, closest_diff)

\* Lines 176-177: the i-th expected timestamp, i from 1.
ExpectedTimestamp(end_time, window_minutes, i) ==
    end_time - 60 * (window_minutes - i)

\* Lines 172-192.
AlignWindow(parsed_data, end_time, window_minutes) ==
    [i \in 1..window_minutes |->
        ClosestValue(parsed_data, ExpectedTimestamp(end_time, window_minutes, i),
                     0, <<>>)]

\* str.format(service=...) on the template: it raises KeyError when the
\* template has a placeholder of another name.
FormatRaises(query_template) == query_template = "other_placeholder"

\* get_historical_workload.  f.data is what _execute_range_query returns,
\* <<>> for None and <<result>> for the data of a successful query.
GetHistoricalWorkload(f) ==
    IF FormatRaises(f.query_template) THEN FetchNone
    ELSE IF f.data = <<>> THEN FetchNone
    ELSE LET parsed_data == ParseQueryResult(f.data[1])
         IN  IF parsed_data = <<>>
             THEN FetchFlat([i \in 1..f.window_minutes |-> 0])
             ELSE FetchBoxed(AlignWindow(parsed_data, f.end_time, f.window_minutes))

(***************************************************************************)
(* SpecFetch: calls of get_historical_workload                             *)
(***************************************************************************)
EndTime == 10 * CycleSeconds

\* Samples 95, 90, 40 and 30 seconds before end_time and at end_time.
SampleTimes == {EndTime - 95, EndTime - 90, EndTime - 40, EndTime - 30, EndTime}

Samples == {Sample(ts, v) : ts \in SampleTimes, v \in {1, MaxLoad, NaN}}

QueryResults ==
    {<<>>, << <<>> >>}
    \cup {<< <<x>> >> : x \in Samples}
    \cup {<< <<x, y>> >> : x \in Samples, y \in Samples}
    \cup {<< <<x>>, <<y>> >> : x \in Samples, y \in Samples}

Fetches ==
    [query_template : {"service", "other_placeholder"},
     window_minutes : 0..MaxWindow,
     end_time : {EndTime},
     data : {<<>>} \cup {<<r>> : r \in QueryResults}]

FetchInit ==
    /\ now = EndTime
    /\ last_scaling_time = <<>>
    /\ call = NoCall
    /\ decision = <<>>
    /\ vcall = NoCall
    /\ verdict = <<>>
    /\ runs = NoCall
    /\ outcomes = <<>>
    /\ reads = NoCall
    /\ cycled = <<>>
    /\ query = NoCall
    /\ fetch \in Fetches
    /\ fetched = <<>>
    /\ main = NoCall
    /\ load = NoCall
    /\ window = NoCall
    /\ deployment = NoCall
    /\ LoopIdle

Fetch ==
    /\ fetched = <<>>
    /\ fetched' = <<GetHistoricalWorkload(fetch)>>
    /\ UNCHANGED <<now, last_scaling_time, call, decision, vcall, verdict, runs,
                   outcomes, reads, cycled, query, fetch, main, load, window,
                   deployment, loopvars>>

FetchNext == Fetch

SpecFetch == FetchInit /\ [][FetchNext]_vars

(***************************************************************************)
(* SpecDefaults: the metrics fetch and the decision of a target whose      *)
(* policy omits every optional field, with healthy backends: the range     *)
(* query would be answered with a result, the replica count is read and    *)
(* the forecast is there.                                                  *)
(***************************************************************************)
DefaultQueryConfig == QueryConfigOf(DeliveredQuery(<<>>, <<>>))

DefaultScalingConfig == ScalingConfigOf(Delivered(<<>>, <<>>, <<>>, <<>>, <<>>))

DefaultsInit ==
    /\ now = EndTime
    /\ last_scaling_time = <<>>
    /\ call \in [deployment_name : {"a"},
                 predicted_workload : {0, MaxForecast},
                 current_replicas : 0..MaxCurrent,
                 config : {DefaultScalingConfig}]
    /\ decision = <<>>
    /\ vcall = NoCall
    /\ verdict = <<>>
    /\ runs = NoCall
    /\ outcomes = <<>>
    /\ reads = NoCall
    /\ cycled = <<>>
    /\ query = NoCall
    /\ fetch \in [query_template : {DefaultQueryConfig.query_template},
                  window_minutes : {DefaultQueryConfig.window_minutes},
                  end_time : {EndTime},
                  data : {<<r>> : r \in QueryResults}]
    /\ fetched = <<>>
    /\ main = NoCall
    /\ load = NoCall
    /\ window = NoCall
    /\ deployment = NoCall
    /\ LoopIdle

DefaultsNext == Fetch \/ Decide

SpecDefaults == DefaultsInit /\ [][DefaultsNext]_vars

(***************************************************************************)
(* SpecMain: main() from initialize() to the exit, with the signal         *)
(*                                                                         *)
(* The iterations of run() are followed without the registry: what the     *)
(* for loop and the reload do to it is in Spec; here they are the one step *)
(* MainProcess that takes its time.  main.pc is                            *)
(*   "initialize"  before await operator.initialize()           (596)      *)
(*   "loop_top"    at the while condition of run()              (481)      *)
(*   "processing"  in the for loop and the reload check         (483-526)  *)
(*   "sleep"       at the computation of sleep_time             (529-530)  *)
(*   "sleeping"    in asyncio.wait_for(shutdown_event.wait())   (536)      *)
(*   "finally"     at the finally of main()                     (609)      *)
(*   "exited"      after main()                                            *)
(* The handlers of SIGTERM and SIGINT are installed by run() (477); the    *)
(* signals that arrive while run() runs are followed.                      *)
(***************************************************************************)
\* Iterations take nothing, half a cycle, a cycle, a cycle and a half.
IterationDurations ==
    {0, CycleSeconds \div 2, CycleSeconds, CycleSeconds + CycleSeconds \div 2}

\* A part of an iteration (one call of the for loop, say) takes nothing or
\* half a cycle.
IterationParts == {0, CycleSeconds \div 2}

\* A slip in main(): shutdown() is called after a normal return of run()
\* only, not in a finally.
MainHandlerNoFinally(how) == IF how = "raised" THEN "exited" ELSE "finally"

\* Where main() goes when initialize() or run() has returned or raised:
\* KeyboardInterrupt and Exception are caught (600-607) and the finally
\* clause runs in every case (608-620).
MainHandler(how) == "finally"

\* A slip in the while condition: the flag running is not looked at.
LoopConditionEventOnly(m) == ~m.shutdown_event

\* The while condition of run() (481).
LoopCondition(m) == m.running /\ ~m.shutdown_event

MainStart ==
    [pc |-> "initialize", running |-> FALSE, shutdown_event |-> FALSE,
     scheduled |-> FALSE, loop_start_time |-> 0, deadline |-> 0,
     iterations |-> 0, completed |-> 0, previous |-> <<>>, took |-> 0,
     signalled |-> <<>>, left |-> <<>>, clients |-> "none",
     shutdown |-> <<>>, csv_written |-> FALSE, clients_closed |-> FALSE]

\* What main() does not touch.
mainrest ==
    <<last_scaling_time, call, decision, vcall, verdict, runs, outcomes,
      reads, cycled, query, fetch, fetched, load, window, deployment,
      loopvars>>

MainInit ==
    /\ now = 0
    /\ last_scaling_time = <<>>
    /\ call = NoCall
    /\ decision = <<>>
    /\ vcall = NoCall
    /\ verdict = <<>>
    /\ runs = NoCall
    /\ outcomes = <<>>
    /\ reads = NoCall
    /\ cycled = <<>>
    /\ query = NoCall
    /\ fetch = NoCall
    /\ fetched = <<>>
    /\ main = MainStart
    /\ load = NoCall
    /\ window = NoCall
    /\ deployment = NoCall
    /\ LoopIdle

\* initialize() (73-95) returns, or raises "Failed to initialize operator";
\* then run() sets running and installs the signal handlers (474-477).
\* clients is what _init_kubernetes_client (97-129) has set up when
\* initialize() ends: the async API clients, the sync ones, or none when
\* it raised.
MainInitialize ==
    /\ main.pc = "initialize"
    /\ \E ok \in BOOLEAN, clients \in {"none", "sync", "async"} :
         /\ ok => clients # "none"
         /\ main' = IF ok
                    THEN [main EXCEPT !.pc = "loop_top", !.running = TRUE,
                                      !.clients = clients]
                    ELSE [main EXCEPT !.pc = MainHandler("raised"),
                                      !.clients = clients,
                                      !.left = <<[how |-> "raised", at |-> now]>>]
    /\ UNCHANGED now
    /\ UNCHANGED mainrest

\* The while condition (481) and the head of the iteration (482-483).
MainLoopTop ==
    /\ main.pc = "loop_top"
    /\ main' = IF LoopCondition(main)
               THEN [main EXCEPT !.pc = "processing", !.loop_start_time = now,
                                 !.iterations = @ + 1,
                                 !.previous =
                                     IF main.iterations = 0 THEN <<>>
                                     ELSE <<[start |-> main.loop_start_time,
                                             took |-> main.took]>>]
               ELSE [main EXCEPT !.pc = MainHandler("returned"),
                                 !.left = <<[how |-> "returned", at |-> now]>>]
    /\ main'.iterations <= MaxIterations
    /\ UNCHANGED now
    /\ UNCHANGED mainrest

\* A part of the for loop and the reload check (497-526) takes d seconds
\* and the iteration goes on: run() is suspended in an await (504, 523) or
\* stands in a blocking call of the sync clients while they pass, and the
\* signal handler can run before the next part.  yields is whether the part
\* reached an await, at which the event loop runs the set() that the signal
\* handler scheduled.
MainProcessPart ==
    /\ main.pc = "processing"
    /\ \E d \in IterationParts, yields \in BOOLEAN :
         /\ (now + d) - main.loop_start_time \in IterationDurations
         /\ now' = now + d
         /\ main' = [main EXCEPT !.shutdown_event =
                                     @ \/ (yields /\ main.scheduled)]
    /\ UNCHANGED mainrest

\* The rest of the for loop and the reload check (497-526) takes d seconds
\* and the iteration ends (529), or an exception of the loop mechanics is
\* re-raised by run() (541-547).  The set() that the signal handler
\* scheduled has run when the rest reached an await, whichever way it ends.
MainProcess ==
    /\ main.pc = "processing"
    /\ \E d \in IterationDurations, yields \in BOOLEAN, raises \in BOOLEAN :
         /\ (now + d) - main.loop_start_time \in IterationDurations
         /\ now' = now + d
         /\ main' = IF raises
                    THEN [main EXCEPT !.pc = MainHandler("raised"),
                                      !.left = <<[how |-> "raised", at |-> now + d]>>,
                                      !.shutdown_event =
                                          @ \/ (yields /\ main.scheduled)]
                    ELSE [main EXCEPT !.pc = "sleep",
                                      !.took = (now + d) - main.loop_start_time,
                                      !.completed = @ + 1,
                                      !.shutdown_event =
                                          @ \/ (yields /\ main.scheduled)]
    /\ UNCHANGED mainrest

\* Lines 529-539 up to the wait: with sleep_time > 0 the wait begins, with
\* sleep_time = 0 the while condition is next.
MainSleep ==
    /\ main.pc = "sleep"
    /\ LET loop_duration == now - main.loop_start_time
           sleep_time == SleepTime(loop_duration)
       IN  main' = IF sleep_time > 0
                   THEN [main EXCEPT !.pc = "sleeping", !.deadline = now + sleep_time]
                   ELSE [main EXCEPT !.pc = "loop_top"]
    /\ UNCHANGED now
    /\ UNCHANGED mainrest

\* The wait ends: the event is set (it was, or the scheduled set() runs now
\* that the coroutine waits) and run() breaks out of the loop (537), or the
\* timeout passes (538-539).
MainWake ==
    /\ main.pc = "sleeping"
    /\ IF main.shutdown_event \/ main.scheduled
       THEN /\ main' = [main EXCEPT !.pc = MainHandler("returned"),
                                    !.shutdown_event = TRUE,
                                    !.left = <<[how |-> "break", at |-> now]>>]
            /\ UNCHANGED now
       ELSE /\ main' = [main EXCEPT !.pc = "loop_top"]
            /\ now' = main.deadline
    /\ UNCHANGED mainrest

\* signal_handler (453-464): running is cleared at once, the set() of the
\* event is handed to the event loop.  A signal during the wait arrives
\* after a part of it.
Signal ==
    /\ main.pc \in {"loop_top", "processing", "sleep", "sleeping"}
    /\ main.signalled = <<>>
    /\ \E part \in {0, 1} :
         /\ now' = IF main.pc = "sleeping"
                   THEN now + part * ((main.deadline - now) \div 2)
                   ELSE now
         /\ main' = [main EXCEPT !.running = FALSE, !.scheduled = TRUE,
                                 !.signalled = <<[at |-> now', in |-> main.pc,
                                                  iterations |-> main.iterations]>>]
    /\ UNCHANGED mainrest

\* The finally of main() calls shutdown() (549-577): the flags, the CSV
\* file, the API clients when they are the async ones.  _write_csv_file
\* catches a failure of open() or of the writes itself and only prints it
\* (61-70): csv_ok is whether the file could be written.  The two close()
\* calls are in one try (566-575): close_ok is whether neither raised; when
\* one raises, the warning is printed and the clients are not all closed.
\* With the sync clients or none nothing is closed and nothing can raise.
\* main.shutdown records that shutdown() ran and what it met.
MainShutdown ==
    /\ main.pc = "finally"
    /\ \E csv_ok \in BOOLEAN, close_ok \in BOOLEAN :
         /\ main.clients # "async" => close_ok
         /\ main' = [main EXCEPT !.pc = "exited", !.running = FALSE,
                                 !.shutdown_event = TRUE,
                                 !.shutdown = <<[csv_ok |-> csv_ok,
                                                 close_ok |-> close_ok]>>,
                                 !.csv_written = csv_ok,
                                 !.clients_closed =
                                     (main.clients = "async") /\ close_ok]
    /\ UNCHANGED now
    /\ UNCHANGED mainrest

MainNext ==
    \/ MainInitialize
    \/ MainLoopTop
    \/ MainProcessPart
    \/ MainProcess
    \/ MainSleep
    \/ MainWake
    \/ Signal
    \/ MainShutdown

SpecMain == MainInit /\ [][MainNext]_vars

(***************************************************************************)
(* SpecLoad: one call of _load_crd_configurations                          *)
(*                                                                         *)
(* The policy source returns up to two items.  An item names its target    *)
(* and its metrics service, or lacks one of them, and delivers its         *)
(* scalingConfig with every field, with none, or with a value outside the  *)
(* range the field is meant to have.                                       *)
(***************************************************************************)
DeliveredConfigs ==
    { DeliveredAll(ScalingConfig(1, MaxPolicyReplicas, 1, Fraction(2), CycleSeconds)),
      Delivered(<<>>, <<>>, <<>>, <<>>, <<>>),
      Delivered(<<0>>, <<>>, <<>>, <<Fraction(2)>>, <<>>),
      Delivered(<<MaxPolicyReplicas>>, <<1>>, <<>>, <<Fraction(2)>>, <<>>),
      Delivered(<<>>, <<>>, <<0>>, <<Fraction(2)>>, <<>>),
      Delivered(<<>>, <<>>, <<>>, <<Fraction(RrsDen + 1)>>, <<>>),
      Delivered(<<>>, <<>>, <<>>, <<Fraction(2)>>, <<-CycleSeconds>>) }

LoadCrds ==
    [targetDeployment : Targets \cup {""}, prometheusService : {"svc", ""},
     scalingConfig : DeliveredConfigs]

LoadLists ==
    {<<>>} \cup {<<c>> : c \in LoadCrds}
    \cup {<<c1, c2>> : c1 \in LoadCrds, c2 \in LoadCrds}

\* The registry before the call: empty at initialize(), or with an entry of
\* target "a" that has failed cycles behind it at a reload.
LoadRegistries ==
    { <<>>,
      <<Entry("a", ScalingConfig(1, 1, 1, Fraction(0), 0), 2)>> }

LoadInit ==
    /\ now = 0
    /\ last_scaling_time = <<>>
    /\ call = NoCall
    /\ decision = <<>>
    /\ vcall = NoCall
    /\ verdict = <<>>
    /\ runs = NoCall
    /\ outcomes = <<>>
    /\ reads = NoCall
    /\ cycled = <<>>
    /\ query = NoCall
    /\ fetch = NoCall
    /\ fetched = <<>>
    /\ main = NoCall
    /\ window = NoCall
    /\ deployment = NoCall
    /\ \E md \in LoadRegistries, items \in LoadLists :
         /\ monitored_deployments = md
         /\ load = [before |-> md, items |-> items, done |-> FALSE]
    /\ last_crd_reload = 0
    /\ pc = "call"
    /\ deployment_names = <<>>
    /\ idx = 1
    /\ loop_start_time = 0
    /\ processed = {}
    /\ issued = <<>>
    /\ fail_run = [n \in Targets |-> 0]
    /\ start = 0
    /\ reloaded = NoReload
    /\ cycle = NoCycle

\* The call, with the policy source answering.
Load ==
    /\ ~load.done
    /\ monitored_deployments' = LoadCrdConfigurations(monitored_deployments, load.items)
    /\ load' = [load EXCEPT !.done = TRUE]
    /\ UNCHANGED <<now, last_scaling_time, call, decision, vcall, verdict,
                   runs, outcomes, reads, cycled, query, fetch, fetched, main,
                   window, deployment, last_crd_reload, pc, deployment_names, idx, loop_start_time,
                   processed, issued, fail_run, start, reloaded, cycle>>

LoadNext == Load

SpecLoad == LoadInit /\ [][LoadNext]_vars

(***************************************************************************)
(* SpecWindow: the window of one call of _make_prediction                  *)
(*                                                                         *)
(* The window given has 0 .. MaxWindowLen values, each 0 or MaxLoad (the   *)
(* model keeps the v of each one-element list [v]).                        *)
(***************************************************************************)
Windows == UNION {[1..n -> {0, MaxLoad}] : n \in 0..MaxWindowLen}

WindowInit ==
    /\ now = 0
    /\ last_scaling_time = <<>>
    /\ call = NoCall
    /\ decision = <<>>
    /\ vcall = NoCall
    /\ verdict = <<>>
    /\ runs = NoCall
    /\ outcomes = <<>>
    /\ reads = NoCall
    /\ cycled = <<>>
    /\ query = NoCall
    /\ fetch = NoCall
    /\ fetched = <<>>
    /\ main = NoCall
    /\ load = NoCall
    /\ \E vs \in Windows : window = [given |-> vs, handed |-> <<>>]
    /\ deployment = NoCall
    /\ LoopIdle

\* Lines 301-316: the window is padded or cut and handed to predict.
HandWindow ==
    /\ window.handed = <<>>
    /\ window' = [window EXCEPT !.handed = <<PadOrTruncate(window.given)>>]
    /\ UNCHANGED <<now, last_scaling_time, call, decision, vcall, verdict, runs,
                   outcomes, reads, cycled, query, fetch, fetched, main, load,
                   deployment, loopvars>>

WindowNext == HandWindow

SpecWindow == WindowInit /\ [][WindowNext]_vars

(***************************************************************************)
(* SpecConverge: the cycles of one target whose deployment takes every     *)
(* patch before the next read                                              *)
(*                                                                         *)
(* The forecast is the same in every cycle, the policy has cooldown 0 and  *)
(* a removal fraction within (0, 1], the patch of _execute_scaling         *)
(* succeeds and the deployment runs the patched replica count when         *)
(* _get_current_replicas reads it CycleSeconds later.  The deployment      *)
(* starts above the required count and is followed for MaxCycles cycles.   *)
(***************************************************************************)
ConvergePolicies ==
    { ScalingConfig(mn, mx, wpp, Fraction(q), 0) :
        mn \in 1..MaxPolicyReplicas, mx \in 1..MaxPolicyReplicas,
        wpp \in 0..MaxWorkloadPerPod, q \in 1..RrsDen }

\* pods_required of line 84 for the deployment's forecast and policy.
PodsRequired(forecast, config) ==
    Max(CalculateRequiredPods(forecast, config.workload_per_pod),
        config.min_replicas)

ConvergeInit ==
    /\ now = 0
    /\ last_scaling_time = <<>>
    /\ call = NoCall
    /\ decision = <<>>
    /\ vcall = NoCall
    /\ verdict = <<>>
    /\ runs = NoCall
    /\ outcomes = <<>>
    /\ reads = NoCall
    /\ cycled = <<>>
    /\ query = NoCall
    /\ fetch = NoCall
    /\ fetched = <<>>
    /\ main = NoCall
    /\ load = NoCall
    /\ window = NoCall
    /\ \E config \in ConvergePolicies, forecast \in 0..MaxForecast, replicas \in 1..MaxCurrent :
         /\ replicas > PodsRequired(forecast, config)
         /\ deployment = [entry |-> Entry("a", config, 0), forecast |-> forecast,
                          replicas |-> replicas, began |-> replicas,
                          cycles |-> 0, action |-> "none", removed |-> 0]
    /\ LoopIdle

\* One cycle of the target (_process_deployment), the patch taking effect,
\* and the sleep to the next cycle.
ConvergeCycle ==
    /\ deployment.cycles < MaxCycles
    /\ LET in == [outcome |-> "decided", took |-> 0,
                  current_replicas |-> deployment.replicas,
                  predicted_workload |-> deployment.forecast,
                  patch_ok |-> TRUE]
           r == ProcessDeployment(deployment.entry, last_scaling_time, now, in)
       IN  /\ last_scaling_time' = r.lst
           /\ deployment' =
                  [deployment EXCEPT
                     !.entry = r.entry,
                     !.replicas = IF r.seen.applied
                                  THEN r.seen.target_replicas ELSE @,
                     !.cycles = @ + 1,
                     !.action = r.seen.action,
                     !.removed = IF r.seen.applied
                                 THEN deployment.replicas - r.seen.target_replicas
                                 ELSE 0]
           /\ now' = r.now + SleepTime(r.now - now)
    /\ UNCHANGED <<call, decision, vcall, verdict, runs, outcomes, reads, cycled,
                   query, fetch, fetched, main, load, window, loopvars>>

ConvergeNext == ConvergeCycle

\* The loop goes on while it runs (481): a cycle that can be made is made.
SpecConverge == ConvergeInit /\ [][ConvergeNext]_vars /\ WF_vars(ConvergeCycle)

(***************************************************************************)
(* Claims about calculate_scaling_decision (under SpecDecide)              *)
(***************************************************************************)
Decided == decision # <<>>
TheDecision == decision[1]

\* "Outside cooldown" as the claims state it: the target was never scaled,
\* or cooldown_seconds have passed since it was.
OutsideCooldown ==
    \/ call.deployment_name \notin DOMAIN last_scaling_time
    \/ now >= last_scaling_time[call.deployment_name] + call.config.cooldown_period

\* required = max(ceil(forecast / workload_per_replica), min_replicas), with
\* required = 1 before the floor when workload_per_replica <= 0.
ClaimRequired ==
    Max(IF call.config.workload_per_pod <= 0
        THEN 1
        ELSE CeilDiv(call.predicted_workload, call.config.workload_per_pod),
        call.config.min_replicas)

InRange(n, c) == c.min_replicas <= n /\ n <= c.max_replicas

\* C1 as stated: every decision (no_action and cooldown decisions included,
\* current_replicas outside the range included) has target_replicas in
\* [min_replicas, max_replicas].
C1_TargetAlwaysInRange ==
    Decided => InRange(TheDecision.target_replicas, call.config)

\* C1 as amended: target_replicas is in [min_replicas, max_replicas] whenever
\* the decision is scale_out or current_replicas is itself in the range;
\* for a current_replicas outside the range a no_action decision (cooldown
\* included) returns current_replicas and a scale_in decision returns a
\* target with min_replicas <= target_replicas <= current_replicas.
C1_TargetInRangeWhenCurrentIs ==
    Decided =>
        LET d == TheDecision
            c == call.config
        IN  /\ d.action = "scale_out" => InRange(d.target_replicas, c)
            /\ InRange(call.current_replicas, c) => InRange(d.target_replicas, c)
            /\ d.action = "no_action" => d.target_replicas = call.current_replicas
            /\ d.action = "scale_in" =>
                   /\ c.min_replicas <= d.target_replicas
                   /\ d.target_replicas <= call.current_replicas

\* C1 witness: a scale_out from above max_replicas comes back clamped into
\* the range.
C1_Witness ==
    /\ Decided
    /\ TheDecision.action = "scale_out"
    /\ call.current_replicas > call.config.max_replicas
    /\ TheDecision.target_replicas = call.config.max_replicas

\* C7: outside cooldown, required > current_replicas gives scale_out with
\* target_replicas = min(required, max_replicas).
C7_ScaleOut ==
    (Decided /\ OutsideCooldown /\ ClaimRequired > call.current_replicas) =>
        /\ TheDecision.action = "scale_out"
        /\ TheDecision.target_replicas = Min(ClaimRequired, call.config.max_replicas)

\* C7 witness: a scale_out whose required count exceeds max_replicas and is
\* clamped, and one taken with workload_per_pod = 0.
C7_Witness ==
    /\ Decided /\ OutsideCooldown
    /\ ClaimRequired > call.config.max_replicas
    /\ ClaimRequired > call.current_replicas
    /\ call.config.workload_per_pod > 0
    /\ TheDecision.action = "scale_out"
    /\ TheDecision.target_replicas = call.config.max_replicas

\* C8: outside cooldown, required < current_replicas gives scale_in with
\* surplus = ceil((current - max(required, min)) * removal_fraction),
\* target_replicas = max(current - surplus, min) and that surplus recorded.
C8_ScaleIn ==
    (Decided /\ OutsideCooldown /\ ClaimRequired < call.current_replicas) =>
        LET c == call.config
            adjusted == Max(ClaimRequired, c.min_replicas)
            surplus == CeilDiv((call.current_replicas - adjusted)
                                   * c.resource_removal_strategy.q, RrsDen)
        IN  /\ TheDecision.action = "scale_in"
            /\ TheDecision.target_replicas =
                   Max(call.current_replicas - surplus, c.min_replicas)
            /\ TheDecision.pods_surplus = <<surplus>>

\* C8 witness: a scale_in whose surplus is rounded up from a fraction
\* (3 surplus pods at one half: 2 are removed).
C8_Witness ==
    /\ Decided /\ OutsideCooldown
    /\ call.current_replicas - ClaimRequired = 3
    /\ call.config.resource_removal_strategy.q * 2 = RrsDen
    /\ TheDecision.action = "scale_in"
    /\ TheDecision.pods_surplus = <<2>>
    /\ TheDecision.target_replicas = call.current_replicas - 2

\* C9: outside cooldown, required = current_replicas gives no_action with
\* target_replicas = current_replicas.
C9_NoAction ==
    (Decided /\ OutsideCooldown /\ ClaimRequired = call.current_replicas) =>
        /\ TheDecision.action = "no_action"
        /\ TheDecision.target_replicas = call.current_replicas

\* C9 witness: a no_action decision outside cooldown for a target that was
\* scaled before.
C9_Witness ==
    /\ Decided /\ OutsideCooldown
    /\ call.deployment_name \in DOMAIN last_scaling_time
    /\ ClaimRequired = call.current_replicas
    /\ call.predicted_workload > 0
    /\ TheDecision.action = "no_action"

(***************************************************************************)
(* Claims about _validate_prediction (under SpecValidate)                  *)
(***************************************************************************)
Validated == verdict # <<>>

\* The two rejection conditions as the claim states them, with
\* current = the last history value and avg = sum / length.
ClaimSpike ==
    LET h == vcall.historical_data
    IN  /\ h[Len(h)] > 0
        /\ vcall.prediction > h[Len(h)] * vcall.thresholds.max_spike_multiplier

ClaimAboveAverage ==
    LET h == vcall.historical_data
    IN  /\ SumSeq(h) > 0
        /\ vcall.prediction * Len(h)
               > SumSeq(h) * vcall.thresholds.max_historical_multiplier

\* C10: the validator accepts exactly when forecast >= 0 and (the history is
\* empty, or neither rejection condition holds).
C10_ValidatorAccepts ==
    Validated =>
        (verdict[1] <=>
            /\ vcall.prediction >= 0
            /\ \/ vcall.historical_data = <<>>
               \/ (~ClaimSpike /\ ~ClaimAboveAverage))

\* C10 witness: a non-negative forecast within the spike bound is rejected
\* because it exceeds the historical bound.
C10_Witness ==
    /\ Validated
    /\ vcall.prediction >= 0
    /\ vcall.historical_data # <<>>
    /\ ~ClaimSpike
    /\ ClaimAboveAverage
    /\ verdict = <<FALSE>>

(***************************************************************************)
(* Claims about the control loop (under Spec)                              *)
(***************************************************************************)
Called == cycle.name # "none"

\* The call just made computed a decision less than cooldown_seconds after
\* the target's last successful patch.
DecidedInCooldown ==
    /\ Called
    /\ cycle.outcome = "decided"
    /\ cycle.last_applied # <<>>
    /\ cycle.at < cycle.last_applied[1] + cycle.config.cooldown_period

\* C2: a decision computed for a target less than cooldown_seconds after a
\* scale action was applied for it is no_action with target_replicas =
\* current_replicas, whatever the forecast and the replica count.
C2_CooldownSuppresses ==
    DecidedInCooldown =>
        /\ cycle.action = "no_action"
        /\ cycle.target_replicas = cycle.current_replicas
        /\ ~cycle.patched

\* C2 witness: in cooldown, a forecast that asks for more replicas than
\* there are is answered with no_action.
C2_Witness ==
    /\ DecidedInCooldown
    /\ cycle.predicted_workload > cycle.current_replicas
    /\ cycle.config.workload_per_pod = 1
    /\ cycle.action = "no_action"

\* C3: two successful patches of the same target are at least that
\* target's cooldown_seconds apart.
C3_PatchesApart ==
    (Called /\ cycle.applied /\ cycle.last_applied # <<>>) =>
        cycle.at - cycle.last_applied[1] >= cycle.config.cooldown_period

\* C3 witness: a second patch of a target exactly two cycles after the
\* first, under a cooldown of two cycles.
C3_Witness ==
    /\ Called /\ cycle.applied /\ cycle.last_applied # <<>>
    /\ cycle.config.cooldown_period = 2 * CycleSeconds
    /\ cycle.at - cycle.last_applied[1] = 2 * CycleSeconds

\* C4: a target whose metrics fetch fails in every cycle has its error
\* counter raised by one per cycle, so that the counter is never below the
\* number of consecutive failed fetches, and it is out of the registry once
\* that number is 11, reloads or not.
C4_EvictedAtEleventh ==
    \A n \in Targets :
        /\ fail_run[n] <= EvictionThreshold
        /\ Has(monitored_deployments, n) =>
               Get(monitored_deployments, n).error_count >= fail_run[n]

\* C5: when the for loop of an iteration is over, _process_deployment was
\* called for every target of the snapshot, and no failure of a cycle ever
\* leaves the loop.
C5_AllProcessed ==
    /\ pc # "crashed"
    /\ pc \in {"reload", "sleep"} =>
           processed = {deployment_names[i] : i \in 1..Len(deployment_names)}

\* C5 witness: the first target of the snapshot failed its cycle and was
\* evicted, and the second one was processed and got its decision.
C5_Witness ==
    /\ pc = "reload"
    /\ Len(deployment_names) = 2
    /\ ~Has(monitored_deployments, deployment_names[1])
    /\ processed = {deployment_names[1], deployment_names[2]}
    /\ cycle.name = deployment_names[2]
    /\ cycle.outcome = "decided"

(***************************************************************************)
(* Claim about two runs (under SpecTwoRuns)                                *)
(***************************************************************************)
\* C6: the outcome of a target's cycle (decision, error counter) is the same
\* in two runs that agree on the target's own inputs and state and differ
\* in the time the other targets take before it is processed.
C6_OutcomeIndependent ==
    outcomes # <<>> => outcomes[1] = outcomes[2]

(***************************************************************************)
(* Claims about one call of _process_deployment (under SpecCycle)          *)
(***************************************************************************)
Cycled == cycled # <<>>
TheCycle == cycled[1]

\* The cycle produced a validated forecast, in the claims' terms: the
\* replica count was read, the fetch gave a window, the predictor gave a
\* forecast, and the validator accepts it against the window the predictor
\* was given.
ClaimValidatedForecast ==
    /\ reads.current_replicas # <<>>
    /\ reads.metrics.ok
    /\ reads.metrics.values # <<>>
    /\ reads.raw # <<>>
    /\ ValidatePrediction(reads.raw[1], PadOrTruncate(reads.metrics.values),
                          reads.thresholds)

\* C11: a patch of the replica count is issued only in a cycle that
\* produced a validated forecast: never after a failed replica read, a
\* failed metrics fetch, an absent forecast or a rejected one.
C11_PatchOnlyWithForecast ==
    (Cycled /\ TheCycle.seen.patched) => ClaimValidatedForecast

\* C11 witness: the validator rejected a forecast that asked for more
\* replicas than the target has, and no patch was issued.
C11_Witness ==
    /\ Cycled
    /\ reads.current_replicas = <<1>>
    /\ reads.metrics.boxed
    /\ reads.raw # <<>>
    /\ reads.raw[1] > 1
    /\ ~ClaimValidatedForecast
    /\ TheCycle.seen.outcome = "no_prediction"
    /\ ~TheCycle.seen.patched

\* C13: the cycle sets error_count to 0 when it ends with no_action or a
\* patch that succeeded, adds exactly 1 to it when it ends in a failed
\* replica read, a failed fetch, no forecast or a failed patch, and does
\* nothing else to it; error_count is never negative.
C13_ErrorCounter ==
    Cycled =>
        LET before == reads.entry.error_count
            after == TheCycle.entry.error_count
            seen == TheCycle.seen
            success == /\ seen.outcome = "decided"
                       /\ seen.action = "no_action" \/ seen.applied
            failure == \/ seen.outcome \in {"read_failed", "no_metrics", "no_prediction"}
                       \/ seen.patched /\ ~seen.applied
        IN  /\ after >= 0
            /\ success \/ failure
            /\ success => after = 0
            /\ failure => after = before + 1

\* C13 witness: a failed patch takes error_count from EvictionThreshold to
\* EvictionThreshold + 1.
C13_Witness ==
    /\ Cycled
    /\ reads.entry.error_count = EvictionThreshold
    /\ TheCycle.seen.patched
    /\ ~TheCycle.seen.applied
    /\ TheCycle.entry.error_count = EvictionThreshold + 1

(***************************************************************************)
(* Claims about the cooldown state in the loop (under Spec)                *)
(***************************************************************************)
\* A target's entry of last_scaling_time, <<>> when it has none.
Stamp(lst, n) == IF n \in DOMAIN lst THEN <<lst[n]>> ELSE <<>>

\* C12: a step of the loop changes a target's last_scaling_time only if it
\* is the cycle of that target and a scale_out or scale_in decision was
\* patched successfully in it; every other step (a decision in cooldown, a
\* no_action decision, a failed patch, a failed cycle, a reload, an
\* eviction) leaves the cooldown state of every target as it was.
C12_CooldownFrame ==
    [][\A n \in Targets :
          Stamp(last_scaling_time', n) # Stamp(last_scaling_time, n) =>
              /\ cycle'.name = n
              /\ cycle'.action \in {"scale_out", "scale_in"}
              /\ cycle'.applied
              /\ Stamp(last_scaling_time', n) = <<cycle'.at>>]_vars

\* C12 witness: a patch of a target has failed, after an earlier one had
\* succeeded, and last_scaling_time still holds the time of the earlier one.
C12_Witness ==
    /\ Called
    /\ cycle.patched
    /\ ~cycle.applied
    /\ cycle.last_applied # <<>>
    /\ cycle.last_applied[1] < cycle.at
    /\ Stamp(last_scaling_time, cycle.name) = cycle.last_applied

(***************************************************************************)
(* Claim about failures inside calculate_scaling_decision (under           *)
(* SpecDecideFaulty)                                                       *)
(***************************************************************************)
\* The computation of the decision fails: outside cooldown, the forecast is
\* NaN and is divided and rounded (workload_per_pod > 0), or the scale-in
\* branch multiplies by a resource_removal_strategy that is no number.
ClaimComputationFails ==
    LET c == call.config
        nan_fails == call.predicted_workload = NaN /\ c.workload_per_pod > 0
        required == IF call.predicted_workload = NaN
                    THEN Max(1, c.min_replicas)
                    ELSE ClaimRequired
    IN  /\ OutsideCooldown
        /\ \/ nan_fails
           \/ ~c.resource_removal_strategy.numeric /\ required < call.current_replicas

\* C14: when the computation of the decision fails (a NaN forecast, a
\* non-numeric policy field), calculate_scaling_decision returns no_action
\* with target_replicas = current_replicas, and raises nothing.
C14_FailureIsNoAction ==
    (Decided /\ ClaimComputationFails) =>
        /\ TheDecision.action = "no_action"
        /\ TheDecision.target_replicas = call.current_replicas
        /\ TheDecision.pods_surplus = <<>>

\* C14 witness: outside cooldown, a NaN forecast for a target with more
\* than min_replicas replicas is answered with no_action at the current
\* count.
C14_Witness ==
    /\ Decided
    /\ OutsideCooldown
    /\ call.predicted_workload = NaN
    /\ call.config.workload_per_pod > 0
    /\ call.current_replicas > call.config.min_replicas
    /\ TheDecision.action = "no_action"
    /\ TheDecision.target_replicas = call.current_replicas

(***************************************************************************)
(* Claims about _execute_range_query (under SpecQuery)                     *)
(***************************************************************************)
\* Every attempt so far met a transport failure, but for a last one that
\* may have succeeded.
OnlyTransportFailures ==
    \A i \in 1..Len(query.answers) :
        \/ query.answers[i] = "connection_error"
        \/ i = Len(query.answers) /\ query.answers[i] = "success"

Succeeded ==
    query.answers # <<>> /\ query.answers[Len(query.answers)] = "success"

\* C15: while the attempts fail with transport failures the query is
\* attempted again, at most MaxRetries = 5 attempts in all, with a sleep of
\* 2^attempt seconds (1, 2, 4, 8) after the failed attempt 0, 1, 2, 3;
\* failure is returned only after the fifth failed attempt; a successful
\* attempt is the last one and its data is returned.
C15_TransportRetried ==
    LET k == Len(query.answers)
        failed == IF Succeeded THEN k - 1 ELSE k
    IN  /\ k <= MaxRetries
        /\ \A i \in 1..k : query.answers[i] = "success" =>
               i = k /\ query.result = "data"
        /\ OnlyTransportFailures =>
               /\ query.slept = [i \in 1..Min(failed, MaxRetries - 1) |-> 2 ^ (i - 1)]
               /\ now = SumSeq(query.slept)
               /\ query.result = "none" <=> failed = MaxRetries
               /\ query.result = "data" <=> Succeeded

\* C15 witness: four transport failures, sleeps of 1, 2, 4 and 8 seconds,
\* and the fifth attempt succeeds.
C15_Witness ==
    /\ Len(query.answers) = MaxRetries
    /\ OnlyTransportFailures
    /\ Succeeded
    /\ query.slept = <<1, 2, 4, 8>>
    /\ query.result = "data"

\* C16: an attempt that fails with a non-transport failure (an answer with
\* an error status, a body that is no JSON, a body that reports an error)
\* is the last attempt, and failure is returned at once.
C16_NonTransportAborts ==
    \A i \in 1..Len(query.answers) :
        query.answers[i] \in {"http_error", "invalid_json", "error_status"} =>
            /\ i = Len(query.answers)
            /\ query.result = "none"

(***************************************************************************)
(* Claims about get_historical_workload (under SpecFetch)                  *)
(***************************************************************************)
Fetched == fetched # <<>>

\* The query succeeded: the template was filled in and the backend's data
\* came back.
QuerySucceeded == ~FormatRaises(fetch.query_template) /\ fetch.data # <<>>

\* The samples of the backend's answer, 'NaN' read as 0.0.
ClaimSamples ==
    LET flat == Flatten(fetch.data[1])
    IN  {Sample(flat[i].ts, IF flat[i].value = NaN THEN 0 ELSE flat[i].value) :
            i \in 1..Len(flat)}

\* The i-th slot, one minute apart, the last one at end_time.
Slot(i) == fetch.end_time - 60 * (fetch.window_minutes - i)

\* The samples at most 30 seconds from slot i, and the closest among them.
Near(i) == {x \in ClaimSamples : Abs(x.ts - Slot(i)) <= 30}
Closest(i) ==
    {x \in Near(i) : \A y \in Near(i) : Abs(x.ts - Slot(i)) <= Abs(y.ts - Slot(i))}

\* C17: a successful fetch with at least one sample returns window_minutes
\* values, one per slot in ascending order with the slot at end_time last;
\* the value of a slot is the value of a sample closest to it among those
\* at most 30 seconds away, and 0 when there is none.
C17_WindowAligned ==
    (Fetched /\ QuerySucceeded /\ ClaimSamples # {}) =>
        LET r == fetched[1]
        IN  /\ r.ok
            /\ r.boxed
            /\ Len(r.values) = fetch.window_minutes
            /\ \A i \in 1..fetch.window_minutes :
                   IF Near(i) = {}
                   THEN r.values[i] = 0
                   ELSE r.values[i] \in {x.value : x \in Closest(i)}

\* C17 witness: samples 95 and 40 seconds before end_time; the slot at
\* end_time gets 0 and the slot a minute earlier the sample 20 seconds
\* after it.
C17_Witness ==
    /\ Fetched
    /\ QuerySucceeded
    /\ fetch.window_minutes = 2
    /\ {x.ts : x \in ClaimSamples} = {fetch.end_time - 95, fetch.end_time - 40}
    /\ \E x \in ClaimSamples :
          /\ x.ts = fetch.end_time - 40
          /\ x.value > 0
          /\ fetched[1].values = <<x.value, 0>>

\* The query succeeded and the backend returned no sample.
ZeroSeries == QuerySucceeded /\ Flatten(fetch.data[1]) = <<>>

\* What _process_deployment makes of a fetch result when the replica count
\* was read and the predictor has a forecast.
CycleOutcomeOf(metrics) ==
    CycleInput([current_replicas |-> <<1>>, metrics |-> metrics, raw |-> <<1>>,
                thresholds |-> ValidationThresholds(1, 1), took |-> 0,
                patch_ok |-> TRUE]).outcome

\* C18: when the query succeeds and the backend returns zero series, the
\* fetch returns window_minutes zeros, not None, and the cycle does not end
\* as a metrics-fetch failure.
C18_ZeroSeriesNotFailure ==
    (Fetched /\ ZeroSeries) =>
        /\ fetched[1].ok
        /\ fetched[1].values = [i \in 1..fetch.window_minutes |-> 0]
        /\ CycleOutcomeOf(fetched[1]) # "no_metrics"

(***************************************************************************)
(* Claims about the periodic reload (under Spec)                           *)
(***************************************************************************)
\* C19: a reload whose call of the policy source raises leaves the registry
\* (the targets, their policies and counters, their order) exactly as it
\* was, and run() goes on to the sleep and the next iteration.
C19_FailedReloadKeepsRegistry ==
    [][(pc = "reload" /\ reloaded'.status = "failed") =>
          /\ monitored_deployments' = monitored_deployments
          /\ pc' = "sleep"]_vars

\* C19 witness: a reload has failed with a target in the registry, and the
\* loop is at its sleep.
C19_Witness ==
    /\ reloaded.status = "failed"
    /\ pc = "sleep"
    /\ monitored_deployments # <<>>

\* C20: after a reload that succeeded, a target that the policy source did
\* not list (the empty list included) is not in the registry.
C20_UnlistedRemoved ==
    reloaded.status = "loaded" =>
        \A n \in Targets :
            n \notin reloaded.listed => ~Has(monitored_deployments, n)

(***************************************************************************)
(* Claims about what the loop keeps between two cycles of a target         *)
(* (under Spec)                                                            *)
(***************************************************************************)
\* The step about to be taken is the cycle of target n.
CycleOf(n) ==
    /\ pc = "targets"
    /\ deployment_names[idx] = n

\* C21: a step that is not the cycle of target n (the cycle of another
\* target, the reload, the sleep, the top of the loop) leaves the error
\* counter and the cooldown state of n as they were, as long as n stays in
\* the registry.
C21_StateCarriesForward ==
    [][\A n \in Targets :
          (/\ ~CycleOf(n)
           /\ Has(monitored_deployments, n)
           /\ Has(monitored_deployments', n)) =>
              /\ Get(monitored_deployments', n).error_count
                     = Get(monitored_deployments, n).error_count
              /\ Stamp(last_scaling_time', n) = Stamp(last_scaling_time, n)]_vars

(***************************************************************************)
(* Claims about main(), run() and shutdown() (under SpecMain)              *)
(***************************************************************************)
Signalled == main.signalled # <<>>

TheSignal == main.signalled[1]

LeftLoop == main.left # <<>>

\* C22: once the signal has been raised no new iteration begins; a signal
\* raised during the sleep at the end of an iteration ends the sleep and the
\* loop at once; a signal raised while the targets are processed lets that
\* iteration finish (or fail with an exception of the loop mechanics) and
\* then ends the loop, also when the iteration overran and the sleep time
\* is 0.
C22_NoIterationAfterSignal ==
    [][/\ Signalled => main'.iterations = main.iterations
       /\ (Signalled /\ main.pc = "sleeping") =>
              /\ main'.pc = "finally"
              /\ now' = now
              /\ TheSignal.in = "sleeping" => now' = TheSignal.at
       /\ (Signalled /\ TheSignal.in = "processing" /\ main.pc = "processing") =>
              \/ main'.pc = "processing" /\ main'.completed = main.completed
              \/ main'.pc = "sleep" /\ main'.completed = main.iterations
              \/ main'.pc = "finally" /\ main'.left[1].how = "raised"
       /\ (Signalled /\ main.pc = "loop_top") => main'.pc = "finally"]_vars

\* The signal came while the targets were processed, some time into the
\* iteration; the iteration overran, finished after the signal, and the
\* loop ended at the while condition.
C22_Witness ==
    /\ Signalled
    /\ TheSignal.in = "processing"
    /\ TheSignal.at > main.loop_start_time
    /\ main.loop_start_time + main.took > TheSignal.at
    /\ main.took > CycleSeconds
    /\ main.completed = TheSignal.iterations
    /\ main.iterations = TheSignal.iterations
    /\ ~main.shutdown_event
    /\ main.pc = "finally"
    /\ main.left[1].how = "returned"

\* C23: on every way out of the loop (the signal, an exception that escapes
\* run(), a failed initialize()) shutdown() has run when main() ends: the
\* flags are set, the CSV file is written unless it could not be, and the
\* async API clients are closed unless close() raised.
C23_ShutdownAlwaysRuns ==
    main.pc = "exited" =>
        /\ LeftLoop
        /\ main.shutdown # <<>>
        /\ ~main.running
        /\ main.shutdown_event
        /\ main.shutdown # <<>> =>
               /\ main.shutdown[1].csv_ok => main.csv_written
               /\ (main.clients = "async" /\ main.shutdown[1].close_ok) =>
                      main.clients_closed

\* An exception escaped run() and main() has ended after shutdown(), which
\* wrote the file and closed the async clients.
C23_Witness ==
    /\ main.pc = "exited"
    /\ main.left[1].how = "raised"
    /\ main.iterations > 0
    /\ main.clients = "async"
    /\ main.shutdown # <<>>
    /\ main.csv_written
    /\ main.clients_closed

\* An iteration has begun after another one and no signal has been raised.
NextIterationBegun ==
    /\ main.pc = "processing"
    /\ main.previous # <<>>
    /\ ~Signalled

\* C27: without a signal, an iteration whose processing took d seconds is
\* followed by a sleep of max(0, 60 - d) seconds: the next iteration starts
\* 60 seconds after it when d <= 60 and at once when d > 60.
C27_Cadence ==
    NextIterationBegun =>
        LET d == main.previous[1].took
            gap == main.loop_start_time - main.previous[1].start
        IN  /\ gap = d + Max(0, CycleSeconds - d)
            /\ d <= CycleSeconds => gap = CycleSeconds
            /\ d > CycleSeconds => gap = d

\* An iteration that overran is followed at once by the next one, which
\* itself follows one that kept the cadence.
C27_Witness ==
    /\ NextIterationBegun
    /\ main.previous[1].took > CycleSeconds
    /\ main.loop_start_time = main.previous[1].start + main.previous[1].took
    /\ main.previous[1].start = CycleSeconds

(***************************************************************************)
(* Claims about the policy load (under SpecLoad)                           *)
(***************************************************************************)
Loaded == load # NoCall /\ load.done

LacksRequiredField(crd) ==
    crd.targetDeployment = "" \/ crd.prometheusService = ""

\* The items of the load that are well formed and name target n.
WellFormedFor(n) ==
    {i \in 1..Len(load.items) :
        /\ load.items[i].targetDeployment = n
        /\ ~LacksRequiredField(load.items[i])}

Last(S) == CHOOSE i \in S : \A j \in S : j <= i

\* C24: in a load, an item that lacks its target deployment or its metrics
\* service adds or changes no registry entry, and every well-formed item of
\* the same load is stored.
C24_MalformedSkipped ==
    Loaded =>
        /\ \A i \in 1..Len(monitored_deployments) :
               monitored_deployments[i].name \in Targets
        /\ \A n \in Targets :
             IF WellFormedFor(n) = {}
             THEN /\ Has(monitored_deployments, n) <=> Has(load.before, n)
                  /\ Has(load.before, n) =>
                         Get(monitored_deployments, n) = Get(load.before, n)
             ELSE /\ Has(monitored_deployments, n)
                  /\ Get(monitored_deployments, n).error_count = 0
                  /\ Get(monitored_deployments, n).scaling_config =
                         ScalingConfigOf(
                             load.items[Last(WellFormedFor(n))].scalingConfig)

\* An item for "a" without its metrics service came before a well-formed
\* item for "b": a's entry is as it was, b's is stored.
C24_Witness ==
    /\ Loaded
    /\ Len(load.items) = 2
    /\ load.items[1].targetDeployment = "a"
    /\ load.items[1].prometheusService = ""
    /\ ~LacksRequiredField(load.items[2])
    /\ load.items[2].targetDeployment = "b"
    /\ Has(load.before, "a")
    /\ Get(monitored_deployments, "a") = Get(load.before, "a")
    /\ Get(monitored_deployments, "a").error_count = 2
    /\ Has(monitored_deployments, "b")

\* The invariant of a scaling policy: 0 < min_replicas <= max_replicas,
\* workload_per_pod > 0, a removal fraction within [0, 1], cooldown >= 0.
PolicyInvariant(p) ==
    /\ 0 < p.min_replicas
    /\ p.min_replicas <= p.max_replicas
    /\ p.workload_per_pod > 0
    /\ p.resource_removal_strategy.numeric
    /\ 0 <= p.resource_removal_strategy.q
    /\ p.resource_removal_strategy.q <= RrsDen
    /\ p.cooldown_period >= 0

\* C29: every policy held in the registry satisfies the policy invariant,
\* whatever field values the policy source delivers and also when fields
\* are omitted and the defaults are used.
C29_RegistryPoliciesValid ==
    Loaded =>
        \A i \in 1..Len(monitored_deployments) :
            PolicyInvariant(monitored_deployments[i].scaling_config)

\* C25: a target that is not in the registry (an evicted one is not) is not
\* processed, and it comes back only by a reload whose policy source lists
\* it; when such a reload runs, the target is registered again with error
\* counter 0.
C25_EvictedUntilReload ==
    [][\A n \in Targets :
          ~Has(monitored_deployments, n) =>
              /\ n \notin processed' \ processed
              /\ Has(monitored_deployments', n) =>
                     /\ reloaded'.status = "loaded"
                     /\ n \in reloaded'.listed
              /\ (/\ pc = "reload"
                  /\ reloaded'.status = "loaded"
                  /\ n \in reloaded'.listed) =>
                     /\ Has(monitored_deployments', n)
                     /\ Get(monitored_deployments', n).error_count = 0]_vars

\* Target "a" was processed in this iteration and evicted (it was in the
\* iteration's snapshot and not in the registry when the reload began); "b"
\* was processed after it; the reload listed "a" and it is back with
\* counter 0.
C25_Witness ==
    /\ reloaded.status = "loaded"
    /\ deployment_names = <<"a", "b">>
    /\ processed = {"a", "b"}
    /\ "a" \notin reloaded.before
    /\ "b" \in reloaded.before
    /\ "a" \in reloaded.listed
    /\ Has(monitored_deployments, "a")
    /\ Get(monitored_deployments, "a").error_count = 0

(***************************************************************************)
(* Claims about repeated decisions (under SpecDecideTwice)                 *)
(***************************************************************************)
CalledTwice == call # NoCall /\ Len(decision) = 2

\* C26: two calls of calculate_scaling_decision with the same target,
\* forecast, current replica count, policy, cooldown state and current time
\* return decisions equal in action, target_replicas, current_replicas,
\* forecast, reason and surplus, and neither call changes the cooldown
\* state.
C26_Deterministic ==
    /\ (call # NoCall /\ "lst" \in DOMAIN call) => last_scaling_time = call.lst
    /\ CalledTwice =>
           /\ decision[1].action = decision[2].action
           /\ decision[1].target_replicas = decision[2].target_replicas
           /\ decision[1].current_replicas = decision[2].current_replicas
           /\ decision[1].predicted_workload = decision[2].predicted_workload
           /\ decision[1].reason = decision[2].reason
           /\ decision[1].pods_surplus = decision[2].pods_surplus

(***************************************************************************)
(* Claims about the reload and the cooldown (under Spec)                   *)
(***************************************************************************)
\* This step is a reload in which the policy source lists target n.
ReloadLists(n) ==
    /\ pc = "reload"
    /\ reloaded'.status = "loaded"
    /\ n \in reloaded'.listed

InCooldownNow(md, lst, n, t) ==
    /\ Has(md, n)
    /\ IsInCooldown(lst, n, Get(md, n).scaling_config.cooldown_period, t)

\* C28 as stated: a reload that lists the policy of a target resets the
\* target's cooldown state; after the reload the target is not in cooldown.
C28_ReloadResetsCooldown ==
    [][\A n \in Targets :
          ReloadLists(n) =>
              ~InCooldownNow(monitored_deployments', last_scaling_time', n, now')]_vars

\* C28 amended: a reload that lists the policy of a target leaves the time
\* of the target's last applied scale action as it was; the target is in
\* cooldown after the reload exactly when that time is less than the
\* listed policy's cooldown period back.
C28_ReloadKeepsCooldown ==
    [][\A n \in Targets :
          ReloadLists(n) =>
              /\ Stamp(last_scaling_time', n) = Stamp(last_scaling_time, n)
              /\ InCooldownNow(monitored_deployments', last_scaling_time', n, now')
                   <=> /\ n \in DOMAIN issued
                       /\ now' < issued[n] +
                              Get(monitored_deployments', n).scaling_config.cooldown_period]_vars

\* A scale action was applied for "a" in this iteration; the reload listed
\* "a" and "a" is in cooldown after it.
C28_Witness ==
    /\ pc = "sleep"
    /\ reloaded.status = "loaded"
    /\ "a" \in reloaded.listed
    /\ "a" \in processed
    /\ "a" \in DOMAIN issued
    /\ issued["a"] >= loop_start_time
    /\ InCooldownNow(monitored_deployments, last_scaling_time, "a", now)

(***************************************************************************)
(* Claim about the window of the predictor (under SpecWindow)              *)
(***************************************************************************)
Handed == window # NoCall /\ window.handed # <<>>

\* C30: the window handed to the predictor has exactly 10 values: a shorter
\* window is extended by repeating its last value (0 when it is empty), a
\* longer one is cut to its 10 most recent values in their order, and a
\* window of exactly 10 values is passed unchanged.
C30_WindowOfTen ==
    Handed =>
        LET given == window.given
            handed == window.handed[1]
            n == Len(given)
        IN  /\ Len(handed) = 10
            /\ n < 10 =>
                   /\ \A i \in 1..n : handed[i] = given[i]
                   /\ \A i \in (n + 1)..10 :
                          handed[i] = IF n = 0 THEN 0 ELSE given[n]
            /\ n > 10 => \A i \in 1..10 : handed[i] = given[n - 10 + i]
            /\ n = 10 => handed = given

\* A window of 12 values whose two oldest differ from the rest has been cut
\* to the ten most recent.
C30_Witness ==
    /\ Handed
    /\ Len(window.given) = 12
    /\ window.given[1] = MaxLoad
    /\ window.given[2] = MaxLoad
    /\ \A i \in 3..12 : window.given[i] = 0
    /\ window.handed[1] = [i \in 1..10 |-> 0]

(***************************************************************************)
(* Claim about last_processed (under SpecCycle)                            *)
(***************************************************************************)
\* C31: every attempted cycle of a target sets the target's last_processed
\* to the time of the cycle, whether the cycle succeeds or fails.
C31_LastProcessedEveryCycle ==
    Cycled => TheCycle.seen.last_processed = <<TheCycle.seen.at>>

(***************************************************************************)
(* Claims about the direction of a decision (under SpecDecide)             *)
(***************************************************************************)
\* C32 as stated: every scale_out decision has target_replicas above
\* current_replicas and every scale_in decision has target_replicas below
\* it, for every valid policy and every current replica count.
C32_DirectionAlways ==
    Decided =>
        /\ TheDecision.action = "scale_out" =>
               TheDecision.target_replicas > call.current_replicas
        /\ TheDecision.action = "scale_in" =>
               TheDecision.target_replicas < call.current_replicas

\* C32 amended: a scale_out decision has target_replicas above
\* current_replicas when current_replicas is below max_replicas, and is
\* max_replicas (not above current_replicas) otherwise; a scale_in decision
\* has target_replicas below current_replicas when the removal fraction is
\* positive, and is current_replicas when it is 0.
C32_DirectionWhenRoom ==
    Decided =>
        /\ TheDecision.action = "scale_out" =>
               IF call.current_replicas < call.config.max_replicas
               THEN TheDecision.target_replicas > call.current_replicas
               ELSE /\ TheDecision.target_replicas = call.config.max_replicas
                    /\ TheDecision.target_replicas <= call.current_replicas
        /\ TheDecision.action = "scale_in" =>
               IF call.config.resource_removal_strategy.q > 0
               THEN TheDecision.target_replicas < call.current_replicas
               ELSE TheDecision.target_replicas = call.current_replicas

\* A scale_out decision for a target that runs above max_replicas: its
\* target is below the current replica count.
C32_Witness ==
    /\ Decided
    /\ TheDecision.action = "scale_out"
    /\ call.current_replicas > call.config.max_replicas
    /\ TheDecision.target_replicas = call.config.max_replicas
    /\ TheDecision.target_replicas < call.current_replicas

(***************************************************************************)
(* Claim about the floor of a scale_in (under SpecDecideAny)               *)
(***************************************************************************)
\* C33: with a removal fraction within [0, 1], a scale_in decision has
\* target_replicas >= max(required, min_replicas); the final clamp to
\* min_replicas does not change current_replicas - surplus.
C33_ScaleInNotBelowRequired ==
    (Decided /\ TheDecision.action = "scale_in") =>
        /\ TheDecision.target_replicas >=
               Max(ClaimRequired, call.config.min_replicas)
        /\ TheDecision.target_replicas =
               call.current_replicas - TheDecision.pods_surplus[1]

\* A scale_in with the whole surplus removed (fraction 1) lands on the
\* required count, which is above min_replicas.
C33_Witness ==
    /\ Decided
    /\ TheDecision.action = "scale_in"
    /\ call.config.resource_removal_strategy.q = RrsDen
    /\ ClaimRequired > call.config.min_replicas
    /\ call.current_replicas - ClaimRequired >= 2
    /\ TheDecision.target_replicas = ClaimRequired

(***************************************************************************)
(* Claim about repeated scale_in (under SpecConverge)                      *)
(***************************************************************************)
AtRequired ==
    deployment.replicas = PodsRequired(deployment.forecast,
                                       deployment.entry.scaling_config)

\* C34: with a constant forecast, a removal fraction above 0, cooldown 0 and
\* every patch taking effect, a target that starts above the required count
\* reaches exactly the required count after finitely many cycles; each cycle
\* before that is a scale_in that removes at least one replica and does not
\* go below the required count, and every cycle from then on is no_action.
C34_ReachesRequired ==
    /\ <>[]AtRequired
    /\ [][IF AtRequired
          THEN /\ deployment'.action = "no_action"
               /\ deployment'.replicas = deployment.replicas
          ELSE /\ deployment'.action = "scale_in"
               /\ deployment'.removed >= 1
               /\ deployment'.replicas = deployment.replicas - deployment'.removed
               /\ deployment'.replicas >=
                      PodsRequired(deployment.forecast,
                                   deployment.entry.scaling_config)]_vars

\* A deployment that began four replicas above the required count has come
\* down to it one replica per cycle, and the cycle after that was no_action.
C34_Witness ==
    /\ deployment # NoCall
    /\ AtRequired
    /\ deployment.began - deployment.replicas = 4
    /\ deployment.cycles = 5
    /\ deployment.action = "no_action"
    /\ last_scaling_time # <<>>

(***************************************************************************)
(* Claim about the range of the error counter (under Spec)                 *)
(***************************************************************************)
\* C35: between the cycles of two targets, at the end of an iteration and
\* during the sleep, every target in the registry has an error counter
\* from 0 to 10; a counter of 11 is not seen outside the cycle that evicts
\* the target.
C35_CounterInRange ==
    \A i \in 1..Len(monitored_deployments) :
        /\ monitored_deployments[i].error_count >= 0
        /\ monitored_deployments[i].error_count <= 10

\* Between the cycles of "a" and "b": the cycle of "a" failed for the
\* eleventh time and evicted it, "b" is in the registry with counter 10.
C35_Witness ==
    /\ pc = "targets"
    /\ idx = 2
    /\ Called
    /\ cycle.name = "a"
    /\ cycle.outcome \in FailureOutcomes
    /\ ~Has(monitored_deployments, "a")
    /\ Has(monitored_deployments, "b")
    /\ Get(monitored_deployments, "b").error_count = 10

(***************************************************************************)
(* Claim about a policy loaded with the defaults (under SpecDefaults)      *)
(***************************************************************************)
\* C36: for a policy loaded with the defaults of its omitted optional
\* fields and healthy backends, the metrics fetch with the default query
\* template succeeds, and with the default removal strategy a scale_in
\* decision is produced whenever required < current_replicas outside
\* cooldown.
C36_DefaultsWork ==
    /\ Fetched => fetched[1].ok
    /\ (Decided /\ OutsideCooldown /\ ClaimRequired < call.current_replicas) =>
           TheDecision.action = "scale_in"

====
